---- MODULE Spec2Model ----
(***************************************************************************)
(* Search relevance and indexing subsystem of vdw-server.                  *)
(*                                                                         *)
(* The content store (Page rows), the search engine (documents, pending    *)
(* tasks, settings), the content-lifecycle hooks of pages/signals.py, the  *)
(* Indexer functions of search/search.py and the query path                *)
(* (search/views.py -> search_pages) are modelled as one state machine.    *)
(*                                                                         *)
(* Strings are sequences of one-character strings, so that casefold,       *)
(* strip and the substring tests of the code are computed, not assumed.    *)
(***************************************************************************)
EXTENDS Integers, Sequences, FiniteSets, TLC

(***************************************************************************)
(* Bounds of the model.                                                    *)
(***************************************************************************)
\* ids 1..NumPages are the pages that hooks create, edit and delete
NumPages == 1
\* clock ticks per second: Page.modified_date has sub-second resolution,
\* the document's modified_date is whole seconds
TicksPerSecond == 2
\* the engine accepts this many document tasks ahead of applying them
MaxTasks == 1

(***************************************************************************)
(* Strings.                                                                *)
(***************************************************************************)
\* str.casefold on one character (the alphabet of the model is ASCII)
LowerOf(c) ==
  CASE c = "O" -> "o"
    [] c = "K" -> "k"
    [] c = "M" -> "m"
    [] c = "S" -> "s"
    [] c = "C" -> "c"
    [] c = "X" -> "x"
    [] OTHER -> c

\* str.casefold
casefold(s) == [i \in 1..Len(s) |-> LowerOf(s[i])]

\* `sub in s` of Python: sub occurs as a contiguous run of s ('' in s holds)
Contains(s, sub) ==
  \E i \in 0..(Len(s) - Len(sub)) : SubSeq(s, i + 1, i + Len(sub)) = sub

\* str.startswith
StartsWith(s, prefix) ==
  /\ Len(prefix) <= Len(s)
  /\ SubSeq(s, 1, Len(prefix)) = prefix

\* str.replace('-', ' ')
ReplaceDash(s) == [i \in 1..Len(s) |-> IF s[i] = "-" THEN " " ELSE s[i]]

IsSpace(c) == c = " "

\* str.strip: drop leading and trailing whitespace
RECURSIVE lstrip(_)
lstrip(s) ==
  IF s # <<>> /\ IsSpace(Head(s)) THEN lstrip(Tail(s)) ELSE s

RECURSIVE rstrip(_)
rstrip(s) ==
  IF s # <<>> /\ IsSpace(s[Len(s)]) THEN rstrip(SubSeq(s, 1, Len(s) - 1)) ELSE s

strip(s) == rstrip(lstrip(s))

\* the string literals of search.py
overview_token == <<"o","v","e","r","v","i","e","w">>
many_studies_token == <<"m","a","n","y"," ","s","t","u","d","i","e","s">>
category_token == <<"c","a","t","e","g","o","r","y">>

\* Python slice s[a : b] for 0 <= a, 0 <= b
Slice(s, a, b) ==
  LET hi == IF b < Len(s) THEN b ELSE Len(s)
  IN  IF a >= hi THEN <<>> ELSE SubSeq(s, a + 1, hi)

\* the elements of a sequence
Range(s) == {s[i] : i \in DOMAIN s}

(***************************************************************************)
(* Titles, tags and queries used as inputs.                                *)
(***************************************************************************)
T_OverviewKK == <<"O","v","e","r","v","i","e","w"," ","K","K">>
T_Overview == <<"O","v","e","r","v","i","e","w">>
T_KK == <<"K","K">>
T_X == <<"x">>

Titles == {T_OverviewKK, T_Overview, T_KK, T_X}

\* Tag rows: display name and slug
TagRows ==
  << [name |-> <<"O","v","e","r","v","i","e","w">>, slug |-> <<"o","v","e","r","v","i","e","w">>],
     [name |-> <<"K","K">>, slug |-> <<"k","k">>] >>

TagIds == DOMAIN TagRows

\* page.tags.all() as a list of Tag rows, in primary-key order
RECURSIVE IdsAscending(_)
IdsAscending(S) ==
  IF S = {} THEN <<>>
  ELSE LET m == CHOOSE x \in S : \A y \in S : x <= y
       IN  <<m>> \o IdsAscending(S \ {m})

TagNames(tagset) == LET ids == IdsAscending(tagset) IN [i \in DOMAIN ids |-> TagRows[ids[i]].name]
TagSlugs(tagset) == LET ids == IdsAscending(tagset) IN [i \in DOMAIN ids |-> TagRows[ids[i]].slug]

Q_kk == <<"k","k">>
Q_KK == <<"K","K">>
Q_k == <<"k">>
Q_blank == <<" ">>
Q_padkk == <<" ","k","k"," ">>

(***************************************************************************)
(* DocumentFormatter.                                                      *)
(***************************************************************************)
\* a priority computed on the tag keys as they come, '-' left in place
compute_search_priority_raw_keys(tag_names, tag_slugs, title) ==
  LET tag_keys == [i \in DOMAIN tag_names |-> casefold(tag_names[i])]
                    \o [i \in DOMAIN tag_slugs |-> casefold(tag_slugs[i])]
      title_casefold == casefold(title)
  IN  IF \/ \E i \in DOMAIN tag_keys : Contains(tag_keys[i], overview_token)
         \/ Contains(title_casefold, overview_token)
      THEN 3
      ELSE IF \/ Contains(title_casefold, many_studies_token)
              \/ \E i \in DOMAIN tag_keys : Contains(tag_keys[i], many_studies_token)
      THEN 2
      ELSE IF \E i \in DOMAIN tag_keys : StartsWith(tag_keys[i], category_token)
      THEN 1
      ELSE 0

compute_search_priority(tag_names, tag_slugs, title) ==
  LET tag_names_lower == [i \in DOMAIN tag_names |-> casefold(tag_names[i])]
      tag_slugs_lower == [i \in DOMAIN tag_slugs |-> casefold(tag_slugs[i])]
      tag_keys == tag_names_lower \o tag_slugs_lower
      normalized_tag_keys == [i \in DOMAIN tag_keys |-> ReplaceDash(tag_keys[i])]
      title_casefold == casefold(title)
      has_overview ==
        \/ \E i \in DOMAIN normalized_tag_keys : Contains(normalized_tag_keys[i], overview_token)
        \/ Contains(title_casefold, overview_token)
      has_category ==
        \E i \in DOMAIN normalized_tag_keys : StartsWith(normalized_tag_keys[i], category_token)
  IN  IF has_overview THEN 3
      ELSE IF \/ Contains(title_casefold, many_studies_token)
              \/ \E i \in DOMAIN normalized_tag_keys :
                   Contains(normalized_tag_keys[i], many_studies_token)
           THEN 2
      ELSE IF has_category THEN 1
      ELSE 0

\* int(page.modified_date.timestamp()): whole seconds, fraction dropped
Timestamp(ticks) == ticks \div TicksPerSecond

\* format_page_for_search: page is the instance, tags its rows in the store
format_page_for_search(id, page) ==
  [ id |-> id,
    title |-> page.title,
    tags |-> TagNames(page.tags),
    status |-> page.status,
    modified_date |-> Timestamp(page.modified),
    search_priority |-> compute_search_priority(TagNames(page.tags), TagSlugs(page.tags), page.title) ]

(***************************************************************************)
(* Sorting: list.sort(key=..., reverse=True) is stable, so elements with   *)
(* equal keys keep their incoming order.  Keys are tuples of integers      *)
(* compared lexicographically.                                             *)
(***************************************************************************)
RECURSIVE KeyGreater(_, _)
KeyGreater(a, b) ==
  IF a = <<>> \/ b = <<>> THEN FALSE
  ELSE IF Head(a) # Head(b) THEN Head(a) > Head(b)
  ELSE KeyGreater(Tail(a), Tail(b))

\* the keys of K from the greatest to the least
RECURSIVE KeysDescending(_)
KeysDescending(K) ==
  IF K = {} THEN <<>>
  ELSE LET m == CHOOSE k \in K : \A o \in K : ~KeyGreater(o, k)
       IN  <<m>> \o KeysDescending(K \ {m})

RECURSIVE ConcatBuckets(_, _, _)
ConcatBuckets(items, keys, order) ==
  IF order = <<>> THEN <<>>
  ELSE LET this == SelectSeq([i \in DOMAIN items |-> i], LAMBDA i : keys[i] = Head(order))
       IN  [j \in DOMAIN this |-> items[this[j]]] \o ConcatBuckets(items, keys, Tail(order))

\* an ascending stable sort read backwards: equal keys come out reversed
StableSortDescending_reversed_ties(items, keys) ==
  LET n == Len(items)
      back == [i \in 1..n |-> items[n + 1 - i]]
      back_keys == [i \in 1..n |-> keys[n + 1 - i]]
  IN  ConcatBuckets(back, back_keys, KeysDescending(Range(keys)))

\* items sorted by keys[i] descending, stable; keys is parallel to items
StableSortDescending(items, keys) ==
  ConcatBuckets(items, keys, KeysDescending(Range(keys)))

(***************************************************************************)
(* RelevanceReranker.                                                      *)
(***************************************************************************)
is_overview_hit(title_casefold, tags_casefold) ==
  \/ Contains(title_casefold, overview_token)
  \/ \E i \in DOMAIN tags_casefold : Contains(tags_casefold[i], overview_token)

is_many_studies_hit(title_casefold) == Contains(title_casefold, many_studies_token)

is_category_hit(tags_casefold) ==
  \E i \in DOMAIN tags_casefold : StartsWith(tags_casefold[i], category_token)

\* the three transient sort keys of one hit (search.py:166-187)
strong_match_of(hit, query_casefold) ==
  LET title_casefold == casefold(hit.title)
      tags_casefold == [i \in DOMAIN hit.tags |-> casefold(hit.tags[i])]
      title_match == query_casefold # <<>> /\ Contains(title_casefold, query_casefold)
      tag_match == query_casefold # <<>> /\ \E i \in DOMAIN tags_casefold : query_casefold = tags_casefold[i]
  IN  IF title_match \/ tag_match THEN 1 ELSE 0

\* a priority that puts matching overview hits in the many-studies bucket
effective_priority_of_overview_as_many_studies(hit, query_casefold) ==
  LET title_casefold == casefold(hit.title)
      tags_casefold == [i \in DOMAIN hit.tags |-> casefold(hit.tags[i])]
      strong_match == strong_match_of(hit, query_casefold)
  IN  IF is_overview_hit(title_casefold, tags_casefold) /\ strong_match = 1 THEN 2
      ELSE IF is_many_studies_hit(title_casefold) THEN 2
      ELSE IF is_category_hit(tags_casefold) /\ strong_match = 1 THEN 1
      ELSE 0

\* a priority that gives the many-studies bucket to matching hits only
effective_priority_of_many_studies_needs_match(hit, query_casefold) ==
  LET title_casefold == casefold(hit.title)
      tags_casefold == [i \in DOMAIN hit.tags |-> casefold(hit.tags[i])]
      strong_match == strong_match_of(hit, query_casefold)
  IN  IF is_overview_hit(title_casefold, tags_casefold) /\ strong_match = 1 THEN 3
      ELSE IF is_many_studies_hit(title_casefold) /\ strong_match = 1 THEN 2
      ELSE IF is_category_hit(tags_casefold) /\ strong_match = 1 THEN 1
      ELSE 0

effective_priority_of(hit, query_casefold) ==
  LET title_casefold == casefold(hit.title)
      tags_casefold == [i \in DOMAIN hit.tags |-> casefold(hit.tags[i])]
      strong_match == strong_match_of(hit, query_casefold)
      has_overview == is_overview_hit(title_casefold, tags_casefold)
      has_many_studies == is_many_studies_hit(title_casefold)
      has_category == is_category_hit(tags_casefold)
  IN  IF has_overview /\ strong_match = 1 THEN 3
      ELSE IF has_many_studies THEN 2
      ELSE IF has_category /\ strong_match = 1 THEN 1
      ELSE 0

\* a sort key without the strong match
sort_key_without_strong_match(hit, query_casefold) ==
  << effective_priority_of(hit, query_casefold), hit.modified_date >>

sort_key(hit, query_casefold) ==
  << effective_priority_of(hit, query_casefold),
     strong_match_of(hit, query_casefold),
     hit.modified_date >>

sort_hits_by_priority(hits, query) ==
  LET query_casefold == casefold(query)
      keys == [i \in DOMAIN hits |-> sort_key(hits[i], query_casefold)] \o <<>>
  IN  StableSortDescending(hits, keys)

\* a detection that takes every overview-flavoured hit for a query match
has_overview_query_match_any_overview(hit, query_casefold) ==
  is_overview_hit(casefold(hit.title), [i \in DOMAIN hit.tags |-> casefold(hit.tags[i])])

has_overview_query_match(hit, query_casefold) ==
  LET title_casefold == casefold(hit.title)
      tags_casefold == [i \in DOMAIN hit.tags |-> casefold(hit.tags[i])]
  IN  IF ~is_overview_hit(title_casefold, tags_casefold) THEN FALSE
      ELSE IF query_casefold = <<>> THEN FALSE
      ELSE IF Contains(title_casefold, query_casefold) THEN TRUE
      ELSE \E i \in DOMAIN tags_casefold : query_casefold = tags_casefold[i]

(***************************************************************************)
(* State.                                                                  *)
(***************************************************************************)
VARIABLES
  now,      \* the clock, in ticks (timezone.now()); the hooks below all run
            \* within its first tick, the corpora carry times of their own
  pages,    \* content store: page id -> Page row, for the rows that exist
  index,    \* engine: document id -> SearchDocument, for the documents held
  tasks,    \* engine: document tasks accepted and not yet applied (FIFO)
  sortable, \* engine: the sortable attributes are configured
  calls,    \* engine and store calls of the running or last operation
  last,     \* the last lifecycle or Indexer operation completed
  clean,    \* so far only hooks wrote to the engine and no engine call failed
  search,   \* the search request in progress or last finished
  job,      \* a function of search.py called on its own: arguments, position, result
  recent    \* pages/recent_cache.py: _recent_pages and _loaded of this process

vars == <<now, pages, index, tasks, sortable, calls, last, clean, search, job, recent>>

PageIds == 1..NumPages

\* a function with one key set / one key dropped
Put(f, k, v) == [x \in (DOMAIN f) \cup {k} |-> IF x = k THEN v ELSE f[x]]
Drop(f, k) == [x \in (DOMAIN f) \ {k} |-> f[x]]

EmptyMap == [x \in {} |-> 0]

(***************************************************************************)
(* The engine's document API.  add_documents and delete_document enqueue a *)
(* task and return; the engine applies tasks in the order it took them.    *)
(***************************************************************************)
AddTask(doc) == [type |-> "add", id |-> doc.id, doc |-> doc]
\* add_documents(batch): one task for the documents of one call
AddBatchTask(batch) == [type |-> "add_batch", id |-> 0, docs |-> batch]
DeleteTask(id) == [type |-> "delete", id |-> id, doc |-> [id |-> id]]
\* delete_all_documents(): one task that empties the index
DeleteAllTask == [type |-> "delete_all", id |-> 0, doc |-> [id |-> 0]]

\* one engine call: the API method, the id it is about, whether the engine
\* accepted it, and the task the engine takes when it accepts
Call(api, id, ok, task) == [api |-> api, id |-> id, ok |-> ok, task |-> task]

\* an engine that answers the delete of an absent id by dropping its documents
ApplyTask_delete_absent_resets(idx, task) ==
  IF task.type = "add" THEN Put(idx, task.id, task.doc)
  ELSE IF task.id \in DOMAIN idx THEN Drop(idx, task.id)
  ELSE EmptyMap

\* the engine applies the oldest pending task: an add overwrites by id,
\* a delete of an absent id changes nothing, delete_all drops every document
ApplyTask(idx, task) ==
  IF task.type = "add" THEN Put(idx, task.id, task.doc)
  ELSE IF task.type = "add_batch"
  THEN LET ids == {task.docs[i].id : i \in DOMAIN task.docs}
           doc_of(id) == CHOOSE d \in Range(task.docs) : d.id = id
       IN  [id \in DOMAIN idx \cup ids |-> IF id \in ids THEN doc_of(id) ELSE idx[id]]
  ELSE IF task.type = "delete_all" THEN EmptyMap
  ELSE Drop(idx, task.id)

EngineApply ==
  /\ tasks # <<>>
  /\ index' = ApplyTask(index, Head(tasks))
  /\ tasks' = Tail(tasks)
  /\ UNCHANGED <<now, recent, pages, sortable, calls, last, clean, search, job>>

(***************************************************************************)
(* Indexer (search.py:272-288).  Each gives the engine calls it makes;     *)
(* engine_ok says whether the engine accepts the call.                     *)
(***************************************************************************)
index_page(id, page, engine_ok) ==
  IF page.status # "published" THEN <<>>
  ELSE LET document == format_page_for_search(id, page)
       IN  << Call("add_documents", id, engine_ok, AddTask(document)) >>

\* remove_page_from_search that returns without calling the engine
remove_page_from_search_no_call(page_id, engine_ok) == <<>>

\* remove_page_from_search that deletes the document of another id
remove_page_from_search_other_id(page_id, engine_ok) ==
  << Call("delete_document", page_id + 1, engine_ok, DeleteTask(page_id + 1)) >>

remove_page_from_search(page_id, engine_ok) ==
  << Call("delete_document", page_id, engine_ok, DeleteTask(page_id)) >>

\* the tasks the engine takes from a sequence of calls: the accepted ones
AcceptedTasks(cs) ==
  LET accepted == SelectSeq(cs, LAMBDA c : c.ok)
  IN  [i \in DOMAIN accepted |-> accepted[i].task]

\* what the log keeps of a call: the method, its argument and how it ended
Logged(cs) ==
  [i \in DOMAIN cs |->
     [api |-> cs[i].api, arg |-> cs[i].id,
      result |-> IF cs[i].ok THEN "ok" ELSE "connection_error"]]

AllOk(cs) == \A i \in DOMAIN cs : cs[i].ok

\* operations run one at a time: none starts while a search request is open
Quiet == search.pc = "idle"

\* limit and offset as they arrive in the query string: int() parses raw
\* to v, or raises ValueError
IntText(v) == [valid |-> TRUE, v |-> v]
NotAnInt == [valid |-> FALSE, v |-> 0]

\* Python's None, among totals that are never negative
None == 0 - 1

IdleSearch ==
  [ pc |-> "idle", entry |-> "none", query |-> <<>>,
    limit_raw |-> IntText(0), offset_raw |-> IntText(0), limit |-> 0, offset |-> 0,
    fresh |-> TRUE, raw |-> <<>>, reranked |-> <<>>, fetched |-> FALSE, overview |-> <<>>,
    merged |-> <<>>, hits |-> <<>>, totalHits |-> None, outcome |-> "none", error |-> "none" ]

NoOperation == [kind |-> "none", id |-> 0, status |-> "none", ok |-> TRUE]

\* no function of search.py is being called on its own
NoJob == [fn |-> "none", pc |-> "idle"]

(***************************************************************************)
(* The recent-pages cache (pages/recent_cache.py): a list of entries and   *)
(* the flag _loaded, kept by the process that runs the hooks.              *)
(***************************************************************************)
MAX_RECENT_PAGES == 150

\* the module as imported: nothing cached, nothing loaded
NotLoaded == [entries |-> <<>>, loaded |-> FALSE]

_entry_from_page(id, page) ==
  [ pk |-> id, title |-> page.title, status |-> page.status,
    modified_date |-> page.modified, created_date |-> page.created ]

_sort_key(entry) == <<entry.modified_date, entry.created_date, entry.pk>>

\* entries.sort(key=_sort_key, reverse=True): the entry with the greater key
\* comes first
SortEntries(entries) ==
  SortSeq(entries, LAMBDA a, b : KeyGreater(_sort_key(a), _sort_key(b)))

\* Page.objects.filter(status='published').order_by('-modified_date',
\* '-created_date', '-id')[:MAX_RECENT_PAGES], as entries
RecentQuery(store) ==
  LET top == IF DOMAIN store = {} THEN 0
             ELSE CHOOSE m \in DOMAIN store : \A o \in DOMAIN store : o <= m
      ids == SelectSeq([i \in 1..top |-> i],
                       LAMBDA i : i \in DOMAIN store /\ store[i].status = "published")
      rows == [i \in DOMAIN ids |-> _entry_from_page(ids[i], store[ids[i]])]
  IN  Slice(SortEntries(rows), 0, MAX_RECENT_PAGES)

\* load_recent_pages(force) with no other thread in between
load_recent_pages(cache, store, force) ==
  IF cache.loaded /\ ~force THEN cache
  ELSE [entries |-> RecentQuery(store), loaded |-> TRUE]

\* an upsert that keeps the entry of a page that is no longer published
upsert_recent_page_keep_unpublished(cache, store, id, page) ==
  LET loaded == load_recent_pages(cache, store, FALSE)
      entries == SelectSeq(loaded.entries, LAMBDA entry : entry.pk # id)
  IN  IF page.status = "published"
      THEN [entries |-> Slice(SortEntries(Append(entries, _entry_from_page(id, page))),
                              0, MAX_RECENT_PAGES),
            loaded |-> TRUE]
      ELSE [entries |-> loaded.entries, loaded |-> TRUE]

\* upsert_recent_page(page): store is the content store at the call
upsert_recent_page(cache, store, id, page) ==
  LET loaded == load_recent_pages(cache, store, FALSE)
      entries == SelectSeq(loaded.entries, LAMBDA entry : entry.pk # id)
  IN  IF page.status = "published"
      THEN [entries |-> Slice(SortEntries(Append(entries, _entry_from_page(id, page))),
                              0, MAX_RECENT_PAGES),
            loaded |-> TRUE]
      ELSE [entries |-> entries, loaded |-> TRUE]

\* remove_recent_page(page_id)
remove_recent_page(cache, store, page_id) ==
  LET loaded == load_recent_pages(cache, store, FALSE)
  IN  [entries |-> SelectSeq(loaded.entries, LAMBDA entry : entry.pk # page_id),
       loaded |-> TRUE]

\* the common end of a lifecycle or Indexer operation that made the calls cs
Finish(kind, id, status, cs, ok) ==
  /\ Len(tasks) + Len(AcceptedTasks(cs)) <= MaxTasks
  /\ tasks' = tasks \o AcceptedTasks(cs)
  /\ calls' = Logged(cs)
  /\ last' = [kind |-> kind, id |-> id, status |-> status, ok |-> ok]
  /\ clean' = (clean /\ AllOk(cs) /\ kind \in {"save", "delete", "tags"})
  /\ UNCHANGED <<search, job>>

(***************************************************************************)
(* Content lifecycle: a store write and the hook Django fires for it       *)
(* (pages/signals.py).  The hooks catch every engine error and log it.     *)
(***************************************************************************)
Statuses == {"draft", "published"}

\* a post_save hook that leaves the document of an unpublished page alone
sync_page_to_search_on_save_index_only(id, instance, engine_ok) ==
  index_page(id, instance, engine_ok)

\* the hook of post_save: the engine calls it makes for the saved instance
sync_page_to_search_on_save(id, instance, engine_ok) ==
  IF instance.status = "published"
  THEN index_page(id, instance, engine_ok)
  ELSE remove_page_from_search(id, engine_ok)

\* the hook of post_delete
remove_page_from_search_on_delete(id, engine_ok) ==
  remove_page_from_search(id, engine_ok)

\* the hook of m2m_changed on Page.tags (post_add, post_remove, post_clear)
sync_page_to_search_on_tags_change(id, instance, engine_ok) ==
  IF instance.status = "published"
  THEN index_page(id, instance, engine_ok)
  ELSE <<>>

\* a hook whose except clause lets the engine error through
hook_goes_on_reraise(cs) == AllOk(cs)

\* try: <engine call> except Exception: logger.error(...): whatever the
\* engine call did, the hook goes on to its next statement
hook_goes_on(cs) == TRUE

\* Page.save(): the row is written with modified_date = now (created_date is
\* set when the row is created), then post_save: the engine call, its error
\* caught and logged, and upsert_recent_page
SavePage(id, title, status, engine_ok) ==
  LET old_tags == IF id \in DOMAIN pages THEN pages[id].tags ELSE {}
      created == IF id \in DOMAIN pages THEN pages[id].created ELSE now
      instance == [title |-> title, status |-> status, tags |-> old_tags, modified |-> now,
                   created |-> created]
      store == Put(pages, id, instance)
  IN  /\ Quiet
      /\ pages' = store
      /\ LET cs == sync_page_to_search_on_save(id, instance, engine_ok)
         IN  /\ Finish("save", id, status, cs, hook_goes_on(cs))
             /\ recent' = IF hook_goes_on(cs)
                           THEN upsert_recent_page(recent, store, id, instance)
                           ELSE recent
      /\ UNCHANGED <<now, index, sortable>>

\* Page.delete(): the row is removed, then post_delete: the engine call, its
\* error caught and logged, and remove_recent_page
DeletePage(id, engine_ok) ==
  /\ Quiet
  /\ id \in DOMAIN pages
  /\ pages' = Drop(pages, id)
  /\ LET cs == remove_page_from_search_on_delete(id, engine_ok)
     IN  /\ Finish("delete", id, "none", cs, hook_goes_on(cs))
         /\ recent' = IF hook_goes_on(cs)
                       THEN remove_recent_page(recent, Drop(pages, id), id)
                       ELSE recent
  /\ UNCHANGED <<now, index, sortable>>

\* page.tags.add / remove / clear / set: the link rows change, then m2m_changed
ChangeTags(id, new_tags, engine_ok) ==
  /\ Quiet
  /\ id \in DOMAIN pages
  /\ new_tags # pages[id].tags
  /\ LET instance == [pages[id] EXCEPT !.tags = new_tags]
         cs == sync_page_to_search_on_tags_change(id, instance, engine_ok)
     IN  /\ pages' = Put(pages, id, instance)
         /\ Finish("tags", id, instance.status, cs, hook_goes_on(cs))
  /\ UNCHANGED <<now, recent, index, sortable>>

\* a direct call of index_page on a page loaded from the store; an engine
\* error propagates to the caller
IndexPageCall(id, engine_ok) ==
  /\ Quiet
  /\ id \in DOMAIN pages
  /\ LET cs == index_page(id, pages[id], engine_ok)
     IN  Finish("index_page", id, pages[id].status, cs, AllOk(cs))
  /\ UNCHANGED <<now, recent, pages, index, sortable>>

\* a direct call of remove_page_from_search
RemoveCall(id, engine_ok) ==
  /\ Quiet
  /\ LET cs == remove_page_from_search(id, engine_ok)
     IN  Finish("remove", id, "none", cs, AllOk(cs))
  /\ UNCHANGED <<now, recent, pages, index, sortable>>

(***************************************************************************)
(* Specification of the content lifecycle: an empty store and an empty     *)
(* index, then saves, tag changes, deletes and Indexer calls.              *)
(***************************************************************************)
HookTitles == {T_OverviewKK}
HookTagSets == {{}, {1}}

Init ==
  /\ now = 0
  /\ pages = EmptyMap
  /\ index = EmptyMap
  /\ tasks = <<>>
  /\ sortable = TRUE
  /\ calls = <<>>
  /\ last = NoOperation
  /\ clean = TRUE
  /\ search = IdleSearch
  /\ job = NoJob
  /\ recent = NotLoaded

Next ==
  \/ EngineApply
  \/ \E id \in PageIds, title \in HookTitles, status \in Statuses, engine_ok \in BOOLEAN :
       SavePage(id, title, status, engine_ok)
  \/ \E id \in PageIds, engine_ok \in BOOLEAN : DeletePage(id, engine_ok)
  \/ \E id \in PageIds, new_tags \in HookTagSets, engine_ok \in BOOLEAN :
       ChangeTags(id, new_tags, engine_ok)
  \/ \E id \in PageIds, engine_ok \in BOOLEAN : IndexPageCall(id, engine_ok)
  \/ \E id \in PageIds, engine_ok \in BOOLEAN : RemoveCall(id, engine_ok)

Spec == Init /\ [][Next]_vars

(***************************************************************************)
(* QueryService: the engine side of a query.                               *)
(***************************************************************************)
max_hits == 1000

\* search_payload of search_pages (search.py:346-369)
search_payload ==
  [ limit |-> max_hits,
    offset |-> 0,
    filter |-> "status = published",
    sort |-> <<"search_priority:desc", "modified_date:desc">>,
    attributesToRetrieve |-> {"id", "title", "slug", "content", "content_html",
                              "tags", "modified_date", "search_priority"},
    attributesToHighlight |-> {"title", "content"},
    cropLength |-> 150,
    attributesToCrop |-> {"content"} ]

\* the ids of S in ascending order (no id of the model is above LastId)
LastId == 100 + max_hits

IdSeq(S) == SelectSeq([i \in 1..LastId |-> i], LAMBDA i : i \in S)

\* what the engine returns of a document: the attributesToRetrieve
RetrievedHit(doc) ==
  [ id |-> doc.id, title |-> doc.title, tags |-> doc.tags,
    modified_date |-> doc.modified_date, search_priority |-> doc.search_priority ]

\* The engine's answer to index.search(query, params) when the documents
\* with ids in matched are the ones its text matching selects: filtered by
\* status, sorted as params.sort asks (search_priority then modified_date,
\* descending; ties and unsorted queries in id order), cut to the window
\* params asks for.
EngineHits(matched, params) ==
  LET ids == IdSeq({i \in matched : index[i].status = "published"})
      docs == [i \in DOMAIN ids |-> index[ids[i]]] \o <<>>
      keys == [i \in DOMAIN docs |-> <<docs[i].search_priority, docs[i].modified_date>>] \o <<>>
      sorted == IF params.sort = <<>> THEN docs ELSE StableSortDescending(docs, keys)
      window == Slice(sorted, params.offset, params.offset + params.limit)
  IN  [i \in DOMAIN window |-> RetrievedHit(window[i])]

(***************************************************************************)
(* QueryService: overview fallback, merging and pagination.                *)
(***************************************************************************)
overview_limit == 10

\* Q(title__icontains=s) | Q(tags__name__icontains=s)
TitleOrTagIContains(page, s) ==
  \/ Contains(casefold(page.title), casefold(s))
  \/ \E t \in page.tags : Contains(casefold(TagRows[t].name), casefold(s))

\* Q(title__icontains=s) | Q(tags__name__iexact=s)
TitleIContainsOrTagIExact(page, s) ==
  \/ Contains(casefold(page.title), casefold(s))
  \/ \E t \in page.tags : casefold(TagRows[t].name) = casefold(s)

\* .order_by('-modified_date'): rows with equal modified_date come in an
\* order the database picks; newest_id_first is that pick
OrderByModifiedDesc(ids, newest_id_first) ==
  LET base == IF newest_id_first
              THEN LET up == IdSeq(ids) IN [i \in DOMAIN up |-> up[Len(up) + 1 - i]]
              ELSE IdSeq(ids)
      keys == [i \in DOMAIN base |-> <<pages[base[i]].modified>>]
  IN  StableSortDescending(base, keys)

\* fetch_overview_hits(query, limit=10)
fetch_overview_hits(query, limit, newest_id_first) ==
  LET trimmed == strip(query)
      overview_pages ==
        { id \in DOMAIN pages :
            /\ pages[id].status = "published"
            /\ TitleOrTagIContains(pages[id], overview_token)
            /\ TitleIContainsOrTagIExact(pages[id], trimmed) }
      ordered == Slice(OrderByModifiedDesc(overview_pages, newest_id_first), 0, limit)
  IN  IF trimmed = <<>> THEN <<>>
      ELSE [i \in DOMAIN ordered |-> format_page_for_search(ordered[i], pages[ordered[i]])]

\* any(has_overview_query_match(hit, query_casefold) for hit in sorted_hits)
has_overview_match(sorted_hits, query) ==
  \E i \in DOMAIN sorted_hits : has_overview_query_match(sorted_hits[i], casefold(query))

\* a merge that forgets to drop the engine hits the fallback already gave
merge_overview_hits_keep_duplicates(overview_hits, sorted_hits) ==
  overview_hits \o sorted_hits

\* search.py:394-397: the fallback hits, then the other hits
merge_overview_hits(overview_hits, sorted_hits) ==
  LET overview_ids == {overview_hits[i].id : i \in DOMAIN overview_hits}
  IN  overview_hits \o SelectSeq(sorted_hits, LAMBDA hit : hit.id \notin overview_ids)

\* a slice that takes limit for the end of the window
paginate_limit_as_end(sorted_hits, offset, limit) == Slice(sorted_hits, offset, limit)

\* search.py:399: sorted_hits[offset : offset + limit]
paginate(sorted_hits, offset, limit) == Slice(sorted_hits, offset, offset + limit)

(***************************************************************************)
(* QueryService: search_pages step by step, entered from the two views.    *)
(***************************************************************************)
min_query_length == 2
search_page_limit == 100

\* an extraction that tries the field names from the oldest to the newest
extract_total_hits_oldest_first(search_response) ==
  IF "totalHits" \in DOMAIN search_response THEN search_response.totalHits
  ELSE IF "nbHits" \in DOMAIN search_response THEN search_response.nbHits
  ELSE IF "estimatedTotalHits" \in DOMAIN search_response
  THEN search_response.estimatedTotalHits
  ELSE None

\* extract_total_hits(search_response), search_response a dict: a record
\* whose fields are the keys present
extract_total_hits(search_response) ==
  IF "estimatedTotalHits" \in DOMAIN search_response THEN search_response.estimatedTotalHits
  ELSE IF "nbHits" \in DOMAIN search_response THEN search_response.nbHits
  ELSE IF "totalHits" \in DOMAIN search_response THEN search_response.totalHits
  ELSE None

\* search.py:401-403: results['totalHits'] is set when a total was found
set_total_hits(results) ==
  LET total_hits == extract_total_hits(results)
  IN  IF total_hits # None
      THEN [key \in DOMAIN results \cup {"totalHits"} |->
              IF key = "totalHits" THEN total_hits ELSE results[key]]
      ELSE results

\* what the engine of this deployment answers around its hits: the v1 field
EngineResponse(raw) == [hits |-> raw, estimatedTotalHits |-> Len(raw)]

\* a search_pages that sends every query to the engine, blank or not
search_pages_begin_no_blank_test(entry, query, limit_raw, offset_raw, limit, offset) ==
  [IdleSearch EXCEPT !.entry = entry, !.query = query,
     !.limit_raw = limit_raw, !.offset_raw = offset_raw,
     !.limit = limit, !.offset = offset, !.pc = "query1"]

\* search_pages from its first line to the first engine call (search.py:
\* 335-344): a blank query returns {'hits': [], 'totalHits': 0, ...} at once
search_pages_begin(entry, query, limit_raw, offset_raw, limit, offset) ==
  LET request == [IdleSearch EXCEPT !.entry = entry, !.query = query,
                    !.limit_raw = limit_raw, !.offset_raw = offset_raw,
                    !.limit = limit, !.offset = offset]
  IN  IF strip(query) = <<>>
      THEN [request EXCEPT !.pc = "done", !.outcome = "ok", !.hits = <<>>, !.totalHits = 0]
      ELSE [request EXCEPT !.pc = "query1"]

\* a view answers without calling search_pages
Answered(entry, query, limit_raw, offset_raw, outcome, error) ==
  [IdleSearch EXCEPT !.pc = "done", !.entry = entry, !.query = query,
     !.limit_raw = limit_raw, !.offset_raw = offset_raw,
     !.outcome = outcome, !.error = error]

\* views.search_page: GET /search/?q=...
SearchPageView(q_raw) ==
  LET query == strip(q_raw)
  IN  /\ Quiet
      /\ search' =
           IF query # <<>> /\ Len(query) >= min_query_length
           THEN search_pages_begin("search_page", query, IntText(search_page_limit),
                                   IntText(0), search_page_limit, 0)
           ELSE Answered("search_page", query, IntText(search_page_limit), IntText(0),
                         "empty", "none")
      /\ calls' = <<>>
      /\ UNCHANGED <<now, recent, pages, index, tasks, sortable, last, clean, job>>

\* a clamp that caps the limit and forgets the offset
clamp_limit_cap_only(limit, offset) ==
  IF limit < max_hits THEN limit ELSE max_hits

\* views.search_api, lines 68-74: the window is kept inside max_hits
clamp_limit(limit, offset) ==
  LET capped == IF limit < max_hits THEN limit ELSE max_hits
  IN  IF offset + capped > max_hits THEN max_hits - offset ELSE capped

\* views.search_api: GET /search/api/?q=...&limit=...&offset=...
SearchApi(q_raw, limit_raw, offset_raw) ==
  LET query == strip(q_raw)
      limit == limit_raw.v
      offset == offset_raw.v
  IN  /\ Quiet
      /\ search' =
           IF query = <<>> \/ Len(query) < min_query_length
           THEN Answered("search_api", query, limit_raw, offset_raw, "empty", "none")
           ELSE IF ~limit_raw.valid \/ ~offset_raw.valid
           THEN Answered("search_api", query, limit_raw, offset_raw, "http400",
                         "limit and offset must be integers")
           ELSE IF limit < 0 \/ offset < 0
           THEN Answered("search_api", query, limit_raw, offset_raw, "http400",
                         "limit and offset must be non-negative")
           ELSE IF offset > max_hits
           THEN Answered("search_api", query, limit_raw, offset_raw, "http400",
                         "offset must be <= max_hits")
           ELSE search_pages_begin("search_api", query, limit_raw, offset_raw,
                                   clamp_limit(limit, offset), offset)
      /\ calls' = <<>>
      /\ UNCHANGED <<now, recent, pages, index, tasks, sortable, last, clean, job>>

EngineOutcomes == {"ok", "invalid_search_sort", "api_error", "connection_error"}

\* a retry that drops the sort the engine complained about
QueryArgs_retry_unsorted(pc, query) ==
  [ query |-> query,
    params |-> IF pc = "query2" THEN [search_payload EXCEPT !.sort = <<>>] ELSE search_payload ]

\* the arguments of index.search at the first query and at the retry
QueryArgs(pc, query) == [query |-> query, params |-> search_payload]

\* a recovery that reinitializes after every invalid_search_sort, retries included
AfterQuery_retry_loop(pc, outcome) ==
  IF outcome = "ok" THEN "post"
  ELSE IF outcome = "invalid_search_sort" THEN "initialize"
  ELSE "done"

\* a recovery that takes every engine API error for schema drift
AfterQuery_recover_any_api_error(pc, outcome) ==
  IF outcome = "ok" THEN "post"
  ELSE IF pc = "query1" /\ outcome \in {"invalid_search_sort", "api_error"} THEN "initialize"
  ELSE "done"

\* where search_pages goes after an engine query (search.py:371-381)
AfterQuery(pc, outcome) ==
  IF outcome = "ok" THEN "post"
  ELSE IF pc = "query1" /\ outcome = "invalid_search_sort" THEN "initialize"
  ELSE "done"

\* index.search(query, search_payload): the first query or the retry.  The
\* engine rejects a sorted query with invalid_search_sort exactly when the
\* sortable attributes are not configured; other errors may come any time.
EngineQuery(outcome, matched) ==
  /\ search.pc \in {"query1", "query2"}
  /\ LET args == QueryArgs(search.pc, search.query)
         needs_sortable == args.params.sort # <<>>
         next_pc == AfterQuery(search.pc, outcome)
     IN  /\ outcome = "invalid_search_sort" => (needs_sortable /\ ~sortable)
         /\ outcome = "ok" => (needs_sortable => sortable)
         /\ outcome # "ok" => matched = {}
         /\ search' = [search EXCEPT
               !.pc = next_pc,
               !.fresh = (tasks = <<>>),
               !.raw = IF outcome = "ok" THEN EngineHits(matched, args.params) ELSE <<>>,
               !.outcome = IF next_pc = "done" THEN "error" ELSE "none",
               !.error = IF next_pc = "done" THEN outcome ELSE "none"]
         /\ calls' = Append(calls, [api |-> "search", arg |-> args, result |-> outcome])
  /\ UNCHANGED <<now, recent, pages, index, tasks, sortable, last, clean, job>>

\* initialize_search_index() called by the recovery branch (search.py:378):
\* it returns, with the sortable attributes applied or with their task
\* finished as failed (the steps are in SpecInitialize), or it raises
InitializeIndex(ok, applied) ==
  /\ search.pc = "initialize"
  /\ sortable' = (sortable \/ (ok /\ applied))
  /\ search' = IF ok THEN [search EXCEPT !.pc = "query2"]
               ELSE [search EXCEPT !.pc = "done", !.outcome = "error",
                                   !.error = "initialize_failed"]
  /\ calls' = Append(calls, [api |-> "initialize", arg |-> <<>>,
                             result |-> IF ok THEN "ok" ELSE "initialize_failed"])
  /\ UNCHANGED <<now, recent, pages, index, tasks, last, clean, job>>

\* search.py:383-405: rerank, overview fallback, merge, paginate
PostProcess(newest_id_first) ==
  /\ search.pc = "post"
  /\ LET sorted_hits == sort_hits_by_priority(search.raw, search.query)
         matched == has_overview_match(sorted_hits, search.query)
         overview_hits == IF matched THEN <<>>
                          ELSE fetch_overview_hits(search.query, overview_limit, newest_id_first)
         merged == IF overview_hits # <<>>
                   THEN merge_overview_hits(overview_hits, sorted_hits)
                   ELSE sorted_hits
     IN  /\ search' = [search EXCEPT
               !.pc = "done",
               !.reranked = sorted_hits,
               !.fetched = ~matched,
               !.overview = overview_hits,
               !.merged = merged,
               !.hits = paginate(merged, search.offset, search.limit),
               !.totalHits = set_total_hits(EngineResponse(search.raw)).totalHits,
               !.outcome = "ok"]
         /\ calls' = IF matched THEN calls
                     ELSE Append(calls, [api |-> "fetch_overview_hits",
                                         arg |-> search.query, result |-> "ok"])
  /\ UNCHANGED <<now, recent, pages, index, tasks, sortable, last, clean, job>>

\* the view hands the response to its client; the request is over
Respond ==
  /\ search.pc = "done"
  /\ search' = IdleSearch
  /\ UNCHANGED <<now, recent, pages, index, tasks, sortable, calls, last, clean, job>>

\* the engine loses its index settings (an upgrade, a reset)
SettingsReset ==
  /\ sortable
  /\ sortable' = FALSE
  /\ UNCHANGED <<now, recent, pages, index, tasks, calls, last, clean, search, job>>

(***************************************************************************)
(* Corpora for the query path.  A corpus is a content store and, per       *)
(* indexed id, the version of the page the engine last took; a version     *)
(* older than the store's is what a failed engine call of a hook leaves.   *)
(***************************************************************************)
Row(title, status, tags, modified) ==
  [title |-> title, status |-> status, tags |-> tags, modified |-> modified,
   created |-> modified]

IndexOf(indexed) == [id \in DOMAIN indexed |-> format_page_for_search(id, indexed[id])]

SmallIds == 1..5

SmallPages ==
  [ id \in SmallIds |->
      CASE id = 1 -> Row(T_OverviewKK, "published", {}, 1)
        [] id = 2 -> Row(T_KK, "published", {1}, 0)
        [] id = 3 -> Row(T_X, "published", {2}, 1)
        [] id = 4 -> Row(T_Overview, "published", {}, 0)
        [] OTHER  -> Row(T_OverviewKK, "draft", {}, 2) ]

Published(store) == {id \in DOMAIN store : store[id].status = "published"}

\* every published page indexed as it is
ConsistentCorpus ==
  [ pages |-> SmallPages,
    indexed |-> [id \in Published(SmallPages) |-> SmallPages[id]] ]

\* page 1 was titled "KK" when the engine last took it, and page 2 had no tag
StaleCorpus ==
  [ pages |-> SmallPages,
    indexed |-> [id \in Published(SmallPages) |->
                   IF id = 1 THEN Row(T_KK, "published", {}, 0)
                   ELSE IF id = 2 THEN Row(T_KK, "published", {}, 0)
                   ELSE SmallPages[id]] ]

SmallCorpora == {ConsistentCorpus, StaleCorpus}

\* more overview pages than the fallback takes, and as many plain pages as
\* the engine returns at most
OverviewBlock == 11..(11 + overview_limit)
FillerBlock == 101..(100 + max_hits)

WindowPages ==
  [ id \in {1} \cup OverviewBlock \cup FillerBlock |->
      IF id = 1 THEN Row(T_OverviewKK, "published", {}, 4)
      ELSE IF id \in OverviewBlock THEN Row(T_OverviewKK, "published", {}, id - 10)
      ELSE Row(T_X, "published", {}, 0) ]

\* page 1 was a plain page titled "KK" when the engine last took it
WindowCorpus ==
  [ pages |-> WindowPages,
    indexed |-> [id \in DOMAIN WindowPages |->
                   IF id = 1 THEN Row(T_KK, "published", {}, 0) ELSE WindowPages[id]] ]

\* The documents the engine's text matching selects for a query are the
\* engine's business: any set of the first documents, with each block
\* taken whole or not at all.
MatchSets ==
  { S \cup B \cup F :
      S \in SUBSET (DOMAIN index \cap SmallIds),
      B \in {{}, DOMAIN index \cap OverviewBlock},
      F \in {{}, DOMAIN index \cap FillerBlock} }

InitCorpus(corpus, sortables) ==
  /\ now = 0
  /\ pages = corpus.pages
  /\ index = IndexOf(corpus.indexed)
  /\ tasks = <<>>
  /\ sortable \in sortables
  /\ calls = <<>>
  /\ last = NoOperation
  /\ clean = FALSE
  /\ search = IdleSearch
  /\ job = NoJob
  /\ recent = NotLoaded


(***************************************************************************)
(* Specification of the query path over the small corpora.                 *)
(***************************************************************************)
Queries == {Q_kk, Q_KK, Q_padkk, Q_k, Q_blank}
LimitTexts == {NotAnInt, IntText(-1), IntText(0), IntText(1), IntText(2), IntText(20)}
OffsetTexts == {NotAnInt, IntText(-1), IntText(0), IntText(1), IntText(3)}

InitSearch == \E corpus \in SmallCorpora : InitCorpus(corpus, BOOLEAN)

NextSearch ==
  \/ \E q \in Queries : SearchPageView(q)
  \/ \E q \in Queries, limit_raw \in LimitTexts, offset_raw \in OffsetTexts :
       SearchApi(q, limit_raw, offset_raw)
  \/ \E outcome \in EngineOutcomes, matched \in MatchSets : EngineQuery(outcome, matched)
  \/ \E ok, applied \in BOOLEAN : InitializeIndex(ok, applied)
  \/ \E newest_id_first \in BOOLEAN : PostProcess(newest_id_first)
  \/ Respond
  \/ SettingsReset

SpecSearch == InitSearch /\ [][NextSearch]_vars

(***************************************************************************)
(* Specification of the query path at the edge of the 1000-hit window.     *)
(***************************************************************************)
WindowLimits == {IntText(1), IntText(max_hits), IntText(max_hits + 1)}
WindowOffsets ==
  {IntText(0), IntText(1), IntText(max_hits - 1), IntText(max_hits), IntText(max_hits + 1)}

InitWindow == InitCorpus(WindowCorpus, {TRUE})

\* the engine's matching takes the plain pages, so that its answer is full
WindowMatchSets == {M \in MatchSets : FillerBlock \subseteq M}

NextWindow ==
  \/ SearchPageView(Q_kk)
  \/ \E limit_raw \in WindowLimits, offset_raw \in WindowOffsets :
       SearchApi(Q_kk, limit_raw, offset_raw)
  \/ \E outcome \in EngineOutcomes, matched \in WindowMatchSets \cup {{}} :
       EngineQuery(outcome, matched)
  \/ \E newest_id_first \in BOOLEAN : PostProcess(newest_id_first)
  \/ Respond

SpecWindow == InitWindow /\ [][NextWindow]_vars

(***************************************************************************)
(* Specification of the Indexer round trip: a published page is upserted,  *)
(* removed from the index, and then searched for.                          *)
(***************************************************************************)
RoundTripQueries == {Q_kk, Q_KK}

InitRoundTrip ==
  /\ now = 0
  /\ \E title \in Titles, tags \in SUBSET TagIds :
       pages = [id \in PageIds |-> Row(title, "published", tags, 0)]
  /\ index = EmptyMap
  /\ tasks = <<>>
  /\ sortable = TRUE
  /\ calls = <<>>
  /\ last = NoOperation
  /\ clean = TRUE
  /\ search = IdleSearch
  /\ job = NoJob
  /\ recent = NotLoaded

NextRoundTrip ==
  \/ /\ last.kind = "none"
     /\ \E id \in PageIds, engine_ok \in BOOLEAN : IndexPageCall(id, engine_ok)
  \/ /\ last.kind = "index_page" /\ last.ok
     /\ \E engine_ok \in BOOLEAN : RemoveCall(last.id, engine_ok)
  \/ EngineApply
  \/ /\ last.kind = "remove" /\ last.ok
     /\ \E q \in RoundTripQueries : SearchPageView(q)
  \/ \E matched \in MatchSets : EngineQuery("ok", matched)
  \/ \E newest_id_first \in BOOLEAN : PostProcess(newest_id_first)

SpecRoundTrip == InitRoundTrip /\ [][NextRoundTrip]_vars

(***************************************************************************)
(* Properties of the content lifecycle and the Indexer.                    *)
(***************************************************************************)
\* the index once the engine has applied the tasks ts
RECURSIVE Settled(_, _)
Settled(idx, ts) ==
  IF ts = <<>> THEN idx ELSE Settled(ApplyTask(idx, Head(ts)), Tail(ts))

LogOk(log) == \A i \in DOMAIN log : log[i].result = "ok"

IsPublished(id) == id \in DOMAIN pages /\ pages[id].status = "published"

\* C1: after any sequence of save, tag-change and delete hooks, run one at a
\* time with every engine call accepted, the index (once the engine has
\* applied what it accepted) holds a document with id i exactly when the
\* store holds a published page with id i.
C1_IndexIffPublished ==
  clean => \A id \in PageIds : (id \in DOMAIN Settled(index, tasks)) <=> IsPublished(id)

\* a published page whose tags changed after its save, indexed and applied
C1_Witness ==
  /\ clean
  /\ tasks = <<>>
  /\ last.kind = "tags"
  /\ \E id \in PageIds : IsPublished(id) /\ id \in DOMAIN index /\ pages[id].tags # {}

\* C5 as stated: index_page called on an entity that is not published leaves
\* no document with that id in the index.
C5_IndexPageDeletesUnpublished ==
  (last.kind = "index_page" /\ last.status # "published" /\ tasks = <<>>)
    => last.id \notin DOMAIN index

\* C5 amended: the deletion is the post_save hook's.  After the hook ran for
\* an entity that is not published, with its engine call accepted and
\* applied, the index holds no document with that id; index_page itself,
\* called on such an entity, makes no engine call.
C5_SaveHookDeletesUnpublished ==
  /\ (last.kind = "save" /\ last.status # "published" /\ LogOk(calls) /\ tasks = <<>>)
       => (calls # <<>> /\ last.id \notin DOMAIN index)
  /\ (last.kind = "index_page" /\ last.status # "published") => calls = <<>>

\* a page saved as draft whose delete_document the engine took and applied
C5_Witness ==
  /\ last.kind = "save"
  /\ last.status = "draft"
  /\ tasks = <<>>
  /\ Len(calls) = 1
  /\ calls[1].api = "delete_document"
  /\ calls[1].result = "ok"
  /\ last.id \notin DOMAIN index

SearchReturned == search.pc = "done" /\ search.outcome = "ok"

HitIds(hits) == {hits[i].id : i \in DOMAIN hits}

\* the search ran after remove(id) completed and the engine had applied it
SearchedAfterRemove ==
  /\ last.kind = "remove"
  /\ last.ok
  /\ SearchReturned
  /\ search.fresh

\* C6 as stated: after upsert(entity) and remove(entity.id), a search
\* returns no hit whose id is the entity's.
C6_NoHitAfterRemove ==
  SearchedAfterRemove => last.id \notin HitIds(search.hits)

\* C6 amended: after upsert(entity) and remove(entity.id), once the engine
\* has applied the removal, no hit the engine returns has the entity's id;
\* a returned hit with that id is one the overview fallback read from the
\* content store, where the entity is still published.
C6_NoEngineHitAfterRemove ==
  SearchedAfterRemove =>
    /\ last.id \notin HitIds(search.raw)
    /\ \A i \in DOMAIN search.hits :
         search.hits[i].id = last.id =>
           /\ search.fetched
           /\ \E j \in DOMAIN search.overview : search.overview[j] = search.hits[i]
           /\ IsPublished(last.id)

\* the round trip on an overview page that the query matches: the engine
\* returns nothing, the fallback returns the page
C6_Witness ==
  /\ SearchedAfterRemove
  /\ search.raw = <<>>
  /\ last.id \in HitIds(search.hits)
  /\ \E i \in DOMAIN calls : calls[i].api = "search" /\ calls[i].result = "ok"

(***************************************************************************)
(* Properties of the recovery from schema drift.                           *)
(***************************************************************************)
\* the engine calls of the open search request, in order
EngineCalls == SelectSeq(calls, LAMBDA c : c.api \in {"search", "initialize"})

CallsOf(api) == SelectSeq(calls, LAMBDA c : c.api = api)

SearchOpen == search.pc # "idle"

FirstQueryFailedWith(errors) ==
  /\ SearchOpen
  /\ calls # <<>>
  /\ calls[1].api = "search"
  /\ calls[1].result \in errors

the_sort == <<"search_priority:desc", "modified_date:desc">>

\* C2: when the first query fails with invalid_search_sort and the retry
\* succeeds, the search made exactly the calls query, initialize, query, the
\* two queries with the same query string and parameters, and returns the
\* result built from the retry's response.
C2_RecoversOnce ==
  ( /\ FirstQueryFailedWith({"invalid_search_sort"})
    /\ search.pc = "done"
    /\ \E i \in DOMAIN calls : calls[i].api = "search" /\ calls[i].result = "ok" )
  => /\ Len(EngineCalls) = 3
     /\ EngineCalls[1].api = "search"
     /\ EngineCalls[2].api = "initialize"
     /\ EngineCalls[3].api = "search"
     /\ EngineCalls[3].result = "ok"
     /\ EngineCalls[3].arg = EngineCalls[1].arg
     /\ EngineCalls[1].arg.query = search.query
     /\ EngineCalls[1].arg.params.sort = the_sort
     /\ search.outcome = "ok"
     /\ HitIds(search.reranked) = HitIds(search.raw)
     /\ Len(search.reranked) = Len(search.raw)

\* a recovered search that returns hits
C2_Witness ==
  /\ FirstQueryFailedWith({"invalid_search_sort"})
  /\ SearchReturned
  /\ Len(CallsOf("search")) = 2
  /\ Len(CallsOf("initialize")) = 1
  /\ search.hits # <<>>

\* C3: a search never makes more than two engine queries nor more than one
\* initialize(); when the retry fails, with whatever error, the search ends
\* with that error.
C3_SecondFailurePropagates ==
  SearchOpen =>
    /\ Len(CallsOf("search")) <= 2
    /\ Len(CallsOf("initialize")) <= 1
    /\ ( Len(CallsOf("search")) = 2 /\ CallsOf("search")[2].result # "ok" )
         => /\ search.pc = "done"
            /\ search.outcome = "error"
            /\ search.error = CallsOf("search")[2].result
            /\ search.hits = <<>>

\* the retry failed with the schema-drift error again
C3_Witness ==
  /\ search.pc = "done"
  /\ Len(CallsOf("search")) = 2
  /\ CallsOf("search")[2].result = "invalid_search_sort"
  /\ search.error = "invalid_search_sort"

\* C4: when the first query fails with another error than
\* invalid_search_sort, the search ends with that error after that one call.
C4_OtherErrorPropagates ==
  FirstQueryFailedWith({"api_error", "connection_error"})
    => /\ search.pc = "done"
       /\ search.outcome = "error"
       /\ search.error = calls[1].result
       /\ Len(calls) = 1

\* the first query failed with an engine API error of another code
C4_Witness ==
  /\ FirstQueryFailedWith({"api_error"})
  /\ search.pc = "done"
  /\ search.error = "api_error"

(***************************************************************************)
(* Properties of the overview fallback, the merge and the pagination.      *)
(***************************************************************************)
\* search_pages got an answer from the engine and built its result
PostProcessed ==
  /\ SearchReturned
  /\ \E i \in DOMAIN calls : calls[i].api = "search" /\ calls[i].result = "ok"

StoreQueried == \E i \in DOMAIN calls : calls[i].api = "fetch_overview_hits"

\* the hit has 'overview' in its title or a tag, and the non-empty
\* case-folded query is a substring of its title or equals one of its tags
OverviewQueryMatch(hit, q) ==
  /\ \/ Contains(casefold(hit.title), overview_token)
     \/ \E i \in DOMAIN hit.tags : Contains(casefold(hit.tags[i]), overview_token)
  /\ q # <<>>
  /\ \/ Contains(casefold(hit.title), q)
     \/ \E i \in DOMAIN hit.tags : casefold(hit.tags[i]) = q

SomeRerankedHitQualifies ==
  \E i \in DOMAIN search.reranked :
     OverviewQueryMatch(search.reranked[i], casefold(search.query))

\* C7: a search queries the content store for fallback overview pages iff
\* no reranked hit is an overview query match; when some reranked hit
\* qualifies, the list that is paginated is exactly the reranked list.
C7_FallbackIffNoMatch ==
  PostProcessed =>
    /\ StoreQueried <=> ~SomeRerankedHitQualifies
    /\ SomeRerankedHitQualifies =>
         /\ search.merged = search.reranked
         /\ search.hits = Slice(search.reranked, search.offset, search.offset + search.limit)

\* a reranked hit is overview-flavoured without matching the query, and the
\* store is queried
C7_Witness ==
  /\ PostProcessed
  /\ StoreQueried
  /\ \E i \in DOMAIN search.reranked :
        Contains(casefold(search.reranked[i].title), overview_token)
  /\ search.overview # <<>>

\* the pages of the store the fallback is after
FallbackCandidates(q) ==
  { id \in DOMAIN pages :
      /\ pages[id].status = "published"
      /\ \/ Contains(casefold(pages[id].title), overview_token)
         \/ \E t \in pages[id].tags : Contains(casefold(TagRows[t].name), overview_token)
      /\ \/ Contains(casefold(pages[id].title), casefold(q))
         \/ \E t \in pages[id].tags : casefold(TagRows[t].name) = casefold(q) }

MinOf(a, b) == IF a < b THEN a ELSE b

\* C8: when the fallback finds an entity, the merged list is the fallback
\* hits (at most 10, the most recently modified, newest first) followed by
\* the reranked engine hits whose id is not among them, in reranked order,
\* and no id occurs twice in it.
C8_FallbackPrepended ==
  (PostProcessed /\ search.overview # <<>>) =>
    LET overview_ids == HitIds(search.overview)
        candidates == FallbackCandidates(search.query)
    IN  /\ Len(search.overview) = MinOf(overview_limit, Cardinality(candidates))
        /\ overview_ids \subseteq candidates
        /\ Cardinality(overview_ids) = Len(search.overview)
        /\ \A i \in DOMAIN search.overview :
              /\ search.overview[i] =
                   format_page_for_search(search.overview[i].id, pages[search.overview[i].id])
              /\ i > 1 => pages[search.overview[i - 1].id].modified
                             >= pages[search.overview[i].id].modified
        /\ \A id \in candidates \ overview_ids :
              pages[id].modified <= pages[search.overview[Len(search.overview)].id].modified
        /\ search.merged =
             search.overview
               \o SelectSeq(search.reranked, LAMBDA hit : hit.id \notin overview_ids)
        /\ Cardinality(HitIds(search.merged)) = Len(search.merged)

\* the fallback is cut at 10 and one of its pages is also an engine hit
C8_Witness ==
  /\ PostProcessed
  /\ Len(search.overview) = overview_limit
  /\ Cardinality(FallbackCandidates(search.query)) > overview_limit
  /\ HitIds(search.overview) \cap HitIds(search.reranked) # {}
  /\ Len(search.merged) = Len(search.overview) + Len(search.reranked) - 1

\* C9: whatever the caller's limit and offset, the engine is asked for
\* limit 1000, offset 0, filter status = published, sort search_priority
\* desc then modified_date desc; the returned hits are the slice
\* [offset, offset + limit) of the merged, reranked list, at most limit hits.
C9_PaginatesMergedList ==
  /\ \A i \in DOMAIN calls :
        (SearchOpen /\ calls[i].api = "search") =>
          /\ calls[i].arg.query = search.query
          /\ calls[i].arg.params.limit = 1000
          /\ calls[i].arg.params.offset = 0
          /\ calls[i].arg.params.filter = "status = published"
          /\ calls[i].arg.params.sort = the_sort
  /\ PostProcessed =>
        /\ Len(search.hits) <= search.limit
        /\ Len(search.hits) =
             MinOf(search.limit,
                   IF Len(search.merged) > search.offset
                   THEN Len(search.merged) - search.offset ELSE 0)
        /\ \A i \in DOMAIN search.hits : search.hits[i] = search.merged[search.offset + i]

\* a window that starts after the first hit and ends before the last
C9_Witness ==
  /\ PostProcessed
  /\ search.offset = 1
  /\ search.limit = 2
  /\ Len(search.merged) = 4
  /\ search.overview # <<>>
  /\ search.hits = <<search.merged[2], search.merged[3]>>

\* a request to the API with a query long enough and integers >= 0
ApiRequest ==
  /\ SearchOpen
  /\ search.entry = "search_api"
  /\ Len(search.query) >= 2
  /\ search.limit_raw.valid /\ search.offset_raw.valid
  /\ search.limit_raw.v >= 0 /\ search.offset_raw.v >= 0

HitsInsideWindow ==
  \A i \in DOMAIN search.hits :
     /\ search.offset + i <= 1000
     /\ search.hits[i] = search.merged[search.offset + i]

\* C10 as stated: for any requested non-negative limit and offset there is
\* an effective limit, at most 1000 and with offset + effective limit <=
\* 1000, that the search runs with; no hit comes from position 1000 or later.
C10_AlwaysClamped ==
  ApiRequest =>
    /\ search.outcome # "http400"
    /\ search.offset = search.offset_raw.v
    /\ search.limit >= 0
    /\ search.limit <= 1000
    /\ search.offset + search.limit <= 1000
    /\ HitsInsideWindow

\* C10 amended: for offset <= 1000 the search runs with the effective limit
\* min(limit, 1000, 1000 - offset) and no hit comes from position 1000 or
\* later; a request with offset > 1000 is rejected with HTTP 400 before any
\* search.
C10_ClampedOrRejected ==
  ApiRequest =>
    IF search.offset_raw.v > 1000
    THEN /\ search.outcome = "http400"
         /\ search.hits = <<>>
         /\ calls = <<>>
    ELSE /\ search.outcome # "http400"
         /\ search.offset = search.offset_raw.v
         /\ search.limit = MinOf(MinOf(search.limit_raw.v, 1000), 1000 - search.offset)
         /\ search.limit >= 0
         /\ search.offset + search.limit <= 1000
         /\ HitsInsideWindow

\* limit 1000 asked at offset 999 of a merged list of more than 1000 hits
C10_Witness ==
  /\ ApiRequest
  /\ PostProcessed
  /\ search.limit_raw.v = 1000
  /\ search.offset = 999
  /\ search.limit = 1
  /\ Len(search.merged) > 1000
  /\ search.hits = <<search.merged[1000]>>

(***************************************************************************)
(* Specification of the reranker called on its own:                        *)
(* sort_hits_by_priority(hits, query) on lists of engine hits.             *)
(***************************************************************************)
\* everything but the job stands still
Standstill ==
  /\ now = 0
  /\ pages = EmptyMap
  /\ index = EmptyMap
  /\ tasks = <<>>
  /\ sortable = TRUE
  /\ calls = <<>>
  /\ last = NoOperation
  /\ clean = FALSE
  /\ search = IdleSearch
  /\ recent = NotLoaded

T_ManyStudiesKK == <<"M","a","n","y"," ","S","t","u","d","i","e","s"," ","K","K">>
T_OverviewManyStudies ==
  <<"O","v","e","r","v","i","e","w"," ","M","a","n","y"," ","S","t","u","d","i","e","s">>
N_Overview == <<"O","v","e","r","v","i","e","w">>
N_KK == <<"K","K">>
N_Category == <<"C","a","t","e","g","o","r","y">>

Hit(id, title, tags, modified_date) ==
  [id |-> id, title |-> title, tags |-> tags, modified_date |-> modified_date]

\* engine hits: every mix of the overview, many-studies and category
\* signals with and without a match of the query 'kk', some with equal keys
RerankHits ==
  << Hit(1, T_OverviewKK, <<>>, 0),
     Hit(2, T_X, <<N_Overview>>, 2),
     Hit(3, T_KK, <<>>, 0),
     Hit(4, T_X, <<N_KK>>, 0),
     Hit(5, T_ManyStudiesKK, <<>>, 2),
     Hit(6, T_OverviewManyStudies, <<>>, 0),
     Hit(7, T_KK, <<N_Category>>, 1),
     Hit(8, T_X, <<N_Category>>, 2),
     Hit(9, T_X, <<N_KK, N_Overview>>, 0) >>

MaxHits == 3

\* the lists of at most MaxHits distinct hits, in every order
RerankLists ==
  UNION { { [i \in 1..n |-> RerankHits[f[i]]] :
              f \in { g \in [1..n -> DOMAIN RerankHits] :
                        \A i, j \in 1..n : i # j => g[i] # g[j] } } :
          n \in 0..MaxHits }

Q_empty == <<>>
RerankQueries == {Q_kk, Q_KK, Q_empty}

InitRerank ==
  /\ Standstill
  /\ \E hits \in RerankLists, query \in RerankQueries :
       job = [fn |-> "sort_hits_by_priority", pc |-> "called", hits |-> hits, query |-> query]

\* the call runs: the three transient sort keys are attached to every hit
\* (search.py:166-187), the list is sorted (189-196) and returned (204)
Rerank ==
  /\ job.fn = "sort_hits_by_priority"
  /\ job.pc = "called"
  /\ job' = [ fn |-> "sort_hits_by_priority", pc |-> "returned",
              hits |-> job.hits, query |-> job.query,
              keys |-> [i \in DOMAIN job.hits |-> sort_key(job.hits[i], casefold(job.query))],
              result |-> sort_hits_by_priority(job.hits, job.query) ]
  /\ UNCHANGED <<now, recent, pages, index, tasks, sortable, calls, last, clean, search>>

NextRerank == Rerank

SpecRerank == InitRerank /\ [][NextRerank]_vars

(***************************************************************************)
(* Properties of the reranker.                                             *)
(***************************************************************************)
Reranked == job.fn = "sort_hits_by_priority" /\ job.pc = "returned"

\* the three signals of a hit, from its title and tags as the engine gave them
HasOverview(hit) ==
  \/ Contains(casefold(hit.title), overview_token)
  \/ \E i \in DOMAIN hit.tags : Contains(casefold(hit.tags[i]), overview_token)

HasManyStudies(hit) == Contains(casefold(hit.title), many_studies_token)

HasCategory(hit) ==
  \E i \in DOMAIN hit.tags : StartsWith(casefold(hit.tags[i]), category_token)

\* the case-folded query is a substring of the case-folded title or equals
\* one case-folded tag
TextMatch(hit, query) ==
  \/ Contains(casefold(hit.title), casefold(query))
  \/ \E i \in DOMAIN hit.tags : casefold(hit.tags[i]) = casefold(query)

\* the priority rule, given the strong match
PriorityRule(hit, strong) ==
  IF HasOverview(hit) /\ strong THEN 3
  ELSE IF HasManyStudies(hit) THEN 2
  ELSE IF HasCategory(hit) /\ strong THEN 1
  ELSE 0

\* C13 as stated: for every hit and query strong_match is 1 exactly when the
\* case-folded query is a substring of the case-folded title or equals one
\* case-folded tag, and effective_priority follows the rule 3 / 2 / 1 / 0.
C13_PriorityBySubstringMatch ==
  Reranked =>
    \A i \in DOMAIN job.hits :
       /\ job.keys[i][2] = (IF TextMatch(job.hits[i], job.query) THEN 1 ELSE 0)
       /\ job.keys[i][1] = PriorityRule(job.hits[i], TextMatch(job.hits[i], job.query))

\* C13 amended: strong_match is 1 exactly when the case-folded query is not
\* empty and is a substring of the case-folded title or equals one
\* case-folded tag; effective_priority follows the rule 3 / 2 / 1 / 0.
C13_PriorityByNonEmptyMatch ==
  Reranked =>
    \A i \in DOMAIN job.hits :
       LET strong == job.query # <<>> /\ TextMatch(job.hits[i], job.query)
       IN  /\ job.keys[i][2] = (IF strong THEN 1 ELSE 0)
           /\ job.keys[i][1] = PriorityRule(job.hits[i], strong)
           /\ job.keys[i][3] = job.hits[i].modified_date

\* one call gave the priorities 3, 2 and 1, the 2 to a hit that has the
\* overview signal and does not match
C13_Witness ==
  /\ Reranked
  /\ job.query = Q_KK
  /\ \E i, j, k \in DOMAIN job.hits :
        /\ job.keys[i][1] = 3
        /\ job.keys[j] = <<2, 0, 0>> /\ HasOverview(job.hits[j])
        /\ job.keys[k][1] = 1

\* strong_match = 1
StrongMatch(hit, query) == query # <<>> /\ TextMatch(hit, query)

\* C11 as stated: a hit with the overview signal and strong_match = 0 is
\* never placed ahead of a hit without the overview signal and with
\* strong_match = 1.
C11_UnrelatedOverviewNeverAhead ==
  Reranked =>
    \A p, q \in DOMAIN job.result :
       ( /\ p < q
         /\ HasOverview(job.result[p]) /\ ~StrongMatch(job.result[p], job.query) )
       => ~( ~HasOverview(job.result[q]) /\ StrongMatch(job.result[q], job.query) )

\* C11 amended: a hit with the overview signal and strong_match = 0 is placed
\* ahead of a hit without the overview signal and with strong_match = 1 only
\* when its title has 'many studies' (priority 2 without a match) and the
\* matching hit's title has not.
C11_UnrelatedOverviewAheadOnlyByManyStudies ==
  Reranked =>
    \A p, q \in DOMAIN job.result :
       ( /\ p # q
         /\ HasOverview(job.result[p]) /\ ~StrongMatch(job.result[p], job.query)
         /\ ~HasOverview(job.result[q]) /\ StrongMatch(job.result[q], job.query) )
       => ( p < q <=> (HasManyStudies(job.result[p]) /\ ~HasManyStudies(job.result[q])) )

\* an unrelated overview page, newer and first in the engine's response,
\* comes out behind a plain page that matches
C11_Witness ==
  /\ Reranked
  /\ job.query = Q_kk
  /\ job.hits = <<RerankHits[2], RerankHits[3]>>
  /\ job.result = <<RerankHits[3], RerankHits[2]>>

RerankKey(hit, query) ==
  << PriorityRule(hit, StrongMatch(hit, query)),
     IF StrongMatch(hit, query) THEN 1 ELSE 0,
     hit.modified_date >>

\* lexicographic order on keys of three integers
KeyBefore(a, b) ==
  \/ a[1] > b[1]
  \/ a[1] = b[1] /\ a[2] > b[2]
  \/ a[1] = b[1] /\ a[2] = b[2] /\ a[3] > b[3]

\* where a hit of the result stood in the engine's response
InputPosition(hit) == CHOOSE i \in DOMAIN job.hits : job.hits[i] = hit

\* C14: rerank returns a permutation of its input, ordered non-increasingly
\* by (effective_priority, strong_match, modified_date); hits with equal keys
\* keep the relative order they had in the engine's response.
C14_StablePermutation ==
  Reranked =>
    /\ Len(job.result) = Len(job.hits)
    /\ Range(job.result) = Range(job.hits)
    /\ \A p, q \in DOMAIN job.result :
          p < q =>
            LET kp == RerankKey(job.result[p], job.query)
                kq == RerankKey(job.result[q], job.query)
            IN  /\ ~KeyBefore(kq, kp)
                /\ kp = kq => InputPosition(job.result[p]) < InputPosition(job.result[q])

\* two hits with equal keys, second and third in the response, come out
\* first and second in the same order
C14_Witness ==
  /\ Reranked
  /\ job.query = Q_kk
  /\ job.hits = <<RerankHits[3], RerankHits[9], RerankHits[1]>>
  /\ job.result = <<RerankHits[9], RerankHits[1], RerankHits[3]>>

(***************************************************************************)
(* Specification of compute_search_priority called on its own, twice on    *)
(* the same arguments.                                                     *)
(***************************************************************************)
N_ManyStudies == <<"M","a","n","y"," ","S","t","u","d","i","e","s">>
N_XCategory == <<"X"," ","C","a","t","e","g","o","r","y">>
S_overview == <<"o","v","e","r","v","i","e","w">>
S_many_studies == <<"m","a","n","y","-","s","t","u","d","i","e","s">>
S_category == <<"c","a","t","e","g","o","r","y">>
S_x_category == <<"x","-","c","a","t","e","g","o","r","y">>
T_many_studies_dashed == <<"K","K"," ","m","a","n","y","-","s","t","u","d","i","e","s">>

PriorityTagNames == {N_Overview, N_ManyStudies, N_Category, N_XCategory}
PriorityTagSlugs == {S_overview, S_many_studies, S_category, S_x_category}
PriorityTitles ==
  {T_X, T_OverviewKK, T_ManyStudiesKK, T_OverviewManyStudies, T_many_studies_dashed}

MaxKeys == 2

ListsOf(S, n) == UNION { [1..k -> S] : k \in 0..n }

InitPriority ==
  /\ Standstill
  /\ \E tag_names \in ListsOf(PriorityTagNames, MaxKeys),
        tag_slugs \in ListsOf(PriorityTagSlugs, MaxKeys),
        title \in PriorityTitles :
       job = [ fn |-> "compute_search_priority", pc |-> "called",
               tag_names |-> tag_names, tag_slugs |-> tag_slugs, title |-> title,
               results |-> <<>> ]

\* the function is called, and called again on the same arguments
ComputePriority ==
  /\ job.fn = "compute_search_priority"
  /\ Len(job.results) < 2
  /\ job' = [job EXCEPT
       !.pc = "returned",
       !.results = Append(@, compute_search_priority(job.tag_names, job.tag_slugs, job.title))]
  /\ UNCHANGED <<now, recent, pages, index, tasks, sortable, calls, last, clean, search>>

NextPriority == ComputePriority

SpecPriority == InitPriority /\ [][NextPriority]_vars

\* the tag keys, case-folded and with '-' turned into a space
NormalizedTagKeys ==
  { ReplaceDash(casefold(key)) : key \in Range(job.tag_names) \cup Range(job.tag_slugs) }

OverviewSignal ==
  \/ \E key \in NormalizedTagKeys : Contains(key, overview_token)
  \/ Contains(casefold(job.title), overview_token)

ManyStudiesSignal ==
  \/ Contains(casefold(job.title), many_studies_token)
  \/ \E key \in NormalizedTagKeys : Contains(key, many_studies_token)

CategorySignal == \E key \in NormalizedTagKeys : StartsWith(key, category_token)

\* C15: compute_search_priority returns 3 when a normalized tag key or the
\* case-folded title contains 'overview'; else 2 when the title or a
\* normalized tag key contains 'many studies'; else 1 when a normalized tag
\* key starts with 'category'; else 0.  The result is in {0,1,2,3} and a
\* second call on the same arguments gives the same result.
C15_PriorityPrecedence ==
  (job.fn = "compute_search_priority" /\ job.pc = "returned") =>
    /\ \A i \in DOMAIN job.results :
          /\ job.results[i] \in 0..3
          /\ job.results[i] = job.results[1]
    /\ job.results[1] =
         ( IF OverviewSignal THEN 3
           ELSE IF ManyStudiesSignal THEN 2
           ELSE IF CategorySignal THEN 1
           ELSE 0 )

\* called twice on a category tag name, a many-studies slug and a key that
\* holds 'category' without starting with it: 2 both times
C15_Witness ==
  /\ job.fn = "compute_search_priority"
  /\ job.tag_names = <<N_Category, N_XCategory>>
  /\ job.tag_slugs = <<S_many_studies>>
  /\ job.title = T_X
  /\ job.results = <<2, 2>>

(***************************************************************************)
(* Specification of bulk_index_pages over a stream of pages, one loop      *)
(* iteration at a time (search.py:291-309).                                *)
(***************************************************************************)
batch_size == 100

\* if len(batch) >= batch_size, with a test that lets one more document in
batch_full_one_late(batch) == Len(batch) > batch_size

\* if len(batch) >= batch_size
batch_full(batch) == Len(batch) >= batch_size

\* the statuses of a stream with n published pages: no other page; a draft
\* at the head and after every 100th published page; a draft after every
\* published page
StreamStatuses(n, pattern) ==
  IF pattern = "published_only" THEN [i \in 1..n |-> "published"]
  ELSE IF pattern = "draft_at_flush"
  THEN [i \in 1..(1 + n + (n \div batch_size)) |->
          IF i = 1 \/ (i - 1) % (batch_size + 1) = 0 THEN "draft" ELSE "published"]
  ELSE [i \in 1..(2 * n) |-> IF i % 2 = 1 THEN "published" ELSE "draft"]

BulkCounts == {0, 1, 99, 100, 101, 200, 250}
BulkPatterns == {"published_only", "draft_at_flush", "draft_every_other"}

InitBulk ==
  /\ now = 0
  /\ index = EmptyMap
  /\ tasks = <<>>
  /\ sortable = TRUE
  /\ calls = <<>>
  /\ last = NoOperation
  /\ clean = FALSE
  /\ search = IdleSearch
  /\ recent = NotLoaded
  /\ \E n \in BulkCounts, pattern \in BulkPatterns :
       LET statuses == StreamStatuses(n, pattern)
       IN  /\ pages = [id \in DOMAIN statuses |-> Row(T_X, statuses[id], {}, 0)]
           /\ job = [ fn |-> "bulk_index_pages", pc |-> "loop",
                      stream |-> [i \in DOMAIN statuses |-> i], pos |-> 0, batch |-> <<>> ]

\* index.add_documents(batch): the engine takes the batch as one task, or
\* the call raises and bulk_index_pages ends with it
WriteBatch(engine_ok) ==
  /\ calls' = Append(calls, [ api |-> "add_documents",
                              arg |-> [i \in DOMAIN job.batch |-> job.batch[i].id],
                              result |-> IF engine_ok THEN "ok" ELSE "connection_error" ])
  /\ tasks' = IF engine_ok THEN Append(tasks, AddBatchTask(job.batch)) ELSE tasks

\* for page in pages_queryset: a published page is formatted and appended
BulkTake ==
  /\ job.fn = "bulk_index_pages"
  /\ job.pc = "loop"
  /\ job.pos < Len(job.stream)
  /\ LET id == job.stream[job.pos + 1]
         batch == IF pages[id].status = "published"
                  THEN Append(job.batch, format_page_for_search(id, pages[id]))
                  ELSE job.batch
     IN  job' = [job EXCEPT !.pos = @ + 1, !.batch = batch,
                            !.pc = IF batch_full(batch) THEN "flush" ELSE "loop"]
  /\ UNCHANGED <<now, recent, pages, index, tasks, sortable, calls, last, clean, search>>

\* the full batch is written and emptied (search.py:303-305)
BulkFlush(engine_ok) ==
  /\ job.fn = "bulk_index_pages"
  /\ job.pc = "flush"
  /\ WriteBatch(engine_ok)
  /\ job' = IF engine_ok THEN [job EXCEPT !.batch = <<>>, !.pc = "loop"]
            ELSE [job EXCEPT !.pc = "raised"]
  /\ UNCHANGED <<now, recent, pages, index, sortable, last, clean, search>>

\* the stream is over: the remaining pages are written, if any (308-309)
BulkEnd(engine_ok) ==
  /\ job.fn = "bulk_index_pages"
  /\ job.pc = "loop"
  /\ job.pos = Len(job.stream)
  /\ IF job.batch # <<>>
     THEN /\ WriteBatch(engine_ok)
          /\ job' = [job EXCEPT !.pc = IF engine_ok THEN "returned" ELSE "raised"]
     ELSE /\ job' = [job EXCEPT !.pc = "returned"]
          /\ UNCHANGED <<calls, tasks>>
  /\ UNCHANGED <<now, recent, pages, index, sortable, last, clean, search>>

NextBulk ==
  \/ BulkTake
  \/ \E engine_ok \in BOOLEAN : BulkFlush(engine_ok)
  \/ \E engine_ok \in BOOLEAN : BulkEnd(engine_ok)
  \/ EngineApply

SpecBulk == InitBulk /\ [][NextBulk]_vars

\* the ids of the published pages of the stream, in stream order
PublishedOfStream ==
  SelectSeq(job.stream, LAMBDA id : pages[id].status = "published")

\* the batches written, in order
Writes == [i \in DOMAIN calls |-> calls[i].arg]

RECURSIVE Flatten(_)
Flatten(lists) == IF lists = <<>> THEN <<>> ELSE Head(lists) \o Flatten(Tail(lists))

\* C16: bulk_reindex over a stream with N published entities and any
\* non-published ones interleaved makes ceil(N/100) engine writes, none
\* empty; the writes in order are consecutive chunks of the published
\* entities in stream order, each of 100 documents except possibly the
\* last; the batch held in memory never exceeds 100 documents.
C16_BatchesOfHundred ==
  job.fn = "bulk_index_pages" =>
    /\ Len(job.batch) <= 100
    /\ job.pc = "returned" =>
         LET N == Len(PublishedOfStream)
         IN  /\ Len(Writes) = (N + 99) \div 100
             /\ \A i \in DOMAIN Writes :
                   /\ Writes[i] # <<>>
                   /\ i < Len(Writes) => Len(Writes[i]) = 100
                   /\ Len(Writes[i]) <= 100
             /\ Flatten(Writes) = PublishedOfStream

\* 250 published pages with drafts in between: writes of 100, 100 and 50
C16_Witness ==
  /\ job.fn = "bulk_index_pages"
  /\ job.pc = "returned"
  /\ Len(job.stream) > 250
  /\ Len(Writes) = 3
  /\ Len(Writes[1]) = 100 /\ Len(Writes[2]) = 100 /\ Len(Writes[3]) = 50
  /\ tasks = <<>>
  /\ Cardinality(DOMAIN index) = 250

(***************************************************************************)
(* Specification of initialize_search_index step by step                   *)
(* (search.py:21-80): four settings updates are submitted, each an         *)
(* asynchronous task of the engine, then the four tasks are waited for in  *)
(* the order of submission.  It is called by the recovery branch of        *)
(* search_pages and by the reindex command.                                *)
(***************************************************************************)
setting_names ==
  << "searchable attributes", "filterable attributes", "sortable attributes", "ranking rules" >>

sortable_setting == 3

\* a wait that returns whatever the state of the task
task_finished_at_once(status) == TRUE

\* index.wait_for_task polls until the task is neither enqueued nor
\* processing, and returns it then, succeeded or failed
task_finished(status) == status \notin {"enqueued", "processing"}

Initializing == job.fn = "initialize_search_index" /\ job.pc \in {"submit", "wait"}

NewInitialize(caller) ==
  [ fn |-> "initialize_search_index", pc |-> "submit", k |-> 1, caller |-> caller,
    settings |-> [i \in DOMAIN setting_names |-> "none"], error |-> "none" ]

\* search.py:378: the recovery branch calls initialize_search_index()
InitializeFromSearch ==
  /\ search.pc = "initialize"
  /\ ~Initializing
  /\ search' = [search EXCEPT !.pc = "initializing"]
  /\ job' = NewInitialize("search_pages")
  /\ UNCHANGED <<now, recent, pages, index, tasks, sortable, calls, last, clean>>

\* reindex_search.py:22-31: the command clears the documents of the index
\* (the engine takes that task before the settings tasks) and calls
\* initialize_search_index(); the indexing that follows is in SpecBulk
InitializeFromCommand ==
  /\ Quiet
  /\ ~Initializing
  /\ index' = EmptyMap
  /\ job' = NewInitialize("reindex_search")
  /\ UNCHANGED <<now, recent, pages, tasks, sortable, calls, last, clean, search>>

\* initialize_search_index hands over to its caller: it returned, or raised;
\* calls is the log of the engine calls of the open search
InitializeEnds(pc, error) ==
  /\ job' = [job EXCEPT !.pc = pc, !.error = error]
  /\ calls' = IF job.caller # "search_pages" THEN calls
               ELSE Append(calls, [api |-> "initialize", arg |-> <<>>,
                                   result |-> IF pc = "returned" THEN "ok" ELSE error])
  /\ search' = IF job.caller # "search_pages" THEN search
               ELSE IF pc = "returned" THEN [search EXCEPT !.pc = "query2"]
               ELSE [search EXCEPT !.pc = "done", !.outcome = "error", !.error = error]

\* index.update_..._attributes / update_ranking_rules: the engine takes the
\* update as a task, or rejects it and the call raises
SubmitSetting(accepted) ==
  /\ job.fn = "initialize_search_index"
  /\ job.pc = "submit"
  /\ IF accepted
     THEN /\ job' = [job EXCEPT !.settings[job.k] = "enqueued",
                                !.k = IF job.k < Len(setting_names) THEN job.k + 1 ELSE 1,
                                !.pc = IF job.k < Len(setting_names) THEN "submit" ELSE "wait"]
          /\ UNCHANGED <<calls, search>>
     ELSE InitializeEnds("raised", "api_error")
  /\ UNCHANGED <<now, recent, pages, index, tasks, sortable, last, clean>>

\* the engine finishes its oldest settings task, with success or not; the
\* sortable attributes are configured when their task succeeds
EngineSettle(outcome) ==
  /\ job.fn = "initialize_search_index"
  /\ \E k \in DOMAIN job.settings :
       /\ job.settings[k] = "enqueued"
       /\ \A i \in 1..(k - 1) : job.settings[i] # "enqueued"
       /\ job' = [job EXCEPT !.settings[k] = outcome]
       /\ sortable' = (sortable \/ (k = sortable_setting /\ outcome = "succeeded"))
  /\ UNCHANGED <<now, recent, pages, index, tasks, calls, last, clean, search>>

\* wait_for_task(index, task, name): the task is finished, the wait returns
\* and its result is dropped (search.py:75-78, 94)
WaitForTask ==
  /\ job.fn = "initialize_search_index"
  /\ job.pc = "wait"
  /\ task_finished(job.settings[job.k])
  /\ IF job.k < Len(setting_names)
     THEN /\ job' = [job EXCEPT !.k = job.k + 1]
          /\ UNCHANGED <<calls, search>>
     ELSE InitializeEnds("returned", "none")
  /\ UNCHANGED <<now, recent, pages, index, tasks, sortable, last, clean>>

\* the task is still pending when the client's timeout expires: the wait raises
WaitTimesOut ==
  /\ job.fn = "initialize_search_index"
  /\ job.pc = "wait"
  /\ ~task_finished(job.settings[job.k])
  /\ InitializeEnds("raised", "timeout")
  /\ UNCHANGED <<now, recent, pages, index, tasks, sortable, last, clean>>

InitInitialize == InitCorpus(ConsistentCorpus, BOOLEAN)

NextInitialize ==
  \/ \E q \in {Q_kk, Q_k} : SearchPageView(q)
  \/ \E outcome \in EngineOutcomes, matched \in {{}, DOMAIN index} : EngineQuery(outcome, matched)
  \/ InitializeFromSearch
  \/ InitializeFromCommand
  \/ \E accepted \in BOOLEAN : SubmitSetting(accepted)
  \/ \E outcome \in {"succeeded", "failed"} : EngineSettle(outcome)
  \/ WaitForTask
  \/ WaitTimesOut
  \/ \E newest_id_first \in BOOLEAN : PostProcess(newest_id_first)
  \/ Respond
  \/ SettingsReset

SpecInitialize == InitInitialize /\ [][NextInitialize]_vars

(***************************************************************************)
(* Properties of initialize_search_index.                                  *)
(***************************************************************************)
InitializeReturned == job.fn = "initialize_search_index" /\ job.pc = "returned"

SettingsIn(statuses) == \A k \in DOMAIN setting_names : job.settings[k] \in statuses

\* the retry of the recovery branch has been issued, or is the next step
RetryDue ==
  /\ SearchOpen
  /\ \/ search.pc = "query2"
     \/ \E i \in DOMAIN calls : calls[i].api = "initialize" /\ calls[i].result = "ok"

\* C17: initialize_search_index has returned only when each of the four
\* settings tasks has finished at the engine, succeeded or failed; and the
\* recovery branch of search_pages issues its retry only after the
\* initialize it called has returned, so with none of the four tasks pending.
C17_ReturnsAfterAllTasksCompleted ==
  /\ InitializeReturned => SettingsIn({"succeeded", "failed"})
  /\ RetryDue => /\ InitializeReturned
                 /\ job.caller = "search_pages"
                 /\ SettingsIn({"succeeded", "failed"})

\* the recovery branch initialized the index, the four tasks succeeded, and
\* the retried query was answered
C17_Witness ==
  /\ RetryDue
  /\ InitializeReturned
  /\ SettingsIn({"succeeded"})
  /\ Len(calls) = 3
  /\ calls[3].api = "search"
  /\ calls[3].result = "ok"

\* C18: when the engine rejects one of the settings updates, at submission
\* or by finishing its task as failed, initialize_search_index does not
\* return normally: whenever it has returned, the four tasks succeeded, and
\* a rejected submission has raised.
C18_RejectedUpdatePropagates ==
  /\ InitializeReturned => SettingsIn({"succeeded"})
  /\ (job.fn = "initialize_search_index" /\ job.error = "api_error") => job.pc = "raised"

\* the sortable attributes task finished as failed and initialize_search_index
\* returned to the recovery branch all the same
C18_Witness ==
  /\ InitializeReturned
  /\ job.caller = "search_pages"
  /\ job.settings[sortable_setting] = "failed"
  /\ search.pc = "query2"

(***************************************************************************)
(* Specification of the operations that change a page's tag set: the       *)
(* hooks of Spec, and the admin action "add tags to selected pages"        *)
(* (pages/admin.py:299-336), which writes the link rows with bulk_create   *)
(* on Page.tags.through.  bulk_create sends no m2m_changed (and no         *)
(* post_save), so no hook runs and the engine is not called.               *)
(***************************************************************************)
Queryset(ids) == ids \cap DOMAIN pages

\* the link rows (page, tag) the action inserts; rows that exist are kept
\* (ignore_conflicts)
add_tags_to_selected(store, page_ids, tag_ids) ==
  [id \in DOMAIN store |->
     IF id \in page_ids THEN [store[id] EXCEPT !.tags = @ \cup tag_ids] ELSE store[id]]

\* the admin applies the action to the selected pages; last names one of the
\* selected pages
AddTagsToSelected(ids, tag_ids) ==
  /\ Quiet
  /\ Queryset(ids) # {}
  /\ pages' = add_tags_to_selected(pages, Queryset(ids), tag_ids)
  /\ \E id \in Queryset(ids) : Finish("bulk_tags", id, pages[id].status, <<>>, TRUE)
  /\ UNCHANGED <<now, recent, index, sortable>>

NextTags ==
  \/ Next
  \/ \E ids \in (SUBSET PageIds) \ {{}}, tag_ids \in HookTagSets \ {{}} :
       AddTagsToSelected(ids, tag_ids)

SpecTags == Init /\ [][NextTags]_vars

\* a tag-changing operation ended on a published page, and the engine took
\* and applied every call it was sent
TagsChangedAndSettled(kinds) ==
  /\ last.kind \in kinds
  /\ last.status = "published"
  /\ last.id \in DOMAIN pages
  /\ LogOk(calls)
  /\ tasks = <<>>

DocumentCurrent(id) ==
  /\ id \in DOMAIN index
  /\ index[id].tags = TagNames(pages[id].tags)
  /\ index[id].search_priority =
       compute_search_priority(TagNames(pages[id].tags), TagSlugs(pages[id].tags),
                               pages[id].title)

\* C19: after any operation that changes the tag set of a published page,
\* the m2m hook or the admin bulk action, once the engine has applied what
\* it was sent, the page's document carries the page's current tags and the
\* search_priority computed from those tags and the title.
C19_TagChangeRewritesDocument ==
  TagsChangedAndSettled({"tags", "bulk_tags"}) => DocumentCurrent(last.id)

\* the admin action added a tag to a published, indexed page and the
\* document still lists the tags from before
C19_Witness ==
  /\ TagsChangedAndSettled({"bulk_tags"})
  /\ last.id \in DOMAIN index
  /\ index[last.id].tags # TagNames(pages[last.id].tags)

(***************************************************************************)
(* Specification of search_pages called on its own, with any values for    *)
(* limit and offset: an int, negative or not, or a value of another type.  *)
(***************************************************************************)
CallQueries == {Q_kk, Q_padkk, Q_blank, Q_empty}

CallValues == {IntText(0 - 1), IntText(0), IntText(MaxHits), NotAnInt}

\* search.py:338-341: the four assertions on limit and offset
search_pages_asserts(limit, offset) ==
  /\ limit.valid
  /\ offset.valid
  /\ limit.v >= 0
  /\ offset.v >= 0

\* search_pages(query, limit, offset): the blank test (335-336) comes first,
\* the assertions after it
SearchPagesCall(query, limit, offset) ==
  /\ Quiet
  /\ search' =
       IF strip(query) # <<>> /\ ~search_pages_asserts(limit, offset)
       THEN Answered("search_pages", query, limit, offset, "error", "AssertionError")
       ELSE search_pages_begin("search_pages", query, limit, offset, limit.v, offset.v)
  /\ calls' = <<>>
  /\ UNCHANGED <<now, recent, pages, index, tasks, sortable, last, clean, job>>

InitCall == InitCorpus(ConsistentCorpus, BOOLEAN)

NextCall ==
  \/ \E query \in CallQueries, limit \in CallValues, offset \in CallValues :
       SearchPagesCall(query, limit, offset)
  \/ \E outcome \in EngineOutcomes, matched \in {{}, DOMAIN index} : EngineQuery(outcome, matched)
  \/ \E ok, applied \in BOOLEAN : InitializeIndex(ok, applied)
  \/ \E newest_id_first \in BOOLEAN : PostProcess(newest_id_first)
  \/ Respond
  \/ SettingsReset

SpecCall == InitCall /\ [][NextCall]_vars

\* search_pages is being called with a limit or an offset that is not an
\* int or is negative
InvalidWindowCall ==
  /\ SearchOpen
  /\ search.entry = "search_pages"
  /\ \/ ~search.limit_raw.valid
     \/ ~search.offset_raw.valid
     \/ search.limit_raw.v < 0
     \/ search.offset_raw.v < 0

\* C20: search_pages called with a limit or an offset that is not an int or
\* is negative ends with an error, whatever the query, without a call to the
\* engine and without a result.
C20_InvalidWindowFailsAtOnce ==
  InvalidWindowCall =>
    /\ search.pc = "done"
    /\ search.outcome = "error"
    /\ search.error = "AssertionError"
    /\ calls = <<>>

\* a blank query with a negative limit: the call returned the empty result
C20_Witness ==
  /\ InvalidWindowCall
  /\ strip(search.query) = <<>>
  /\ search.limit_raw = IntText(0 - 1)
  /\ search.pc = "done"
  /\ search.outcome = "ok"
  /\ calls = <<>>

(***************************************************************************)
(* Properties of the hooks when the engine fails, and of the recent-pages  *)
(* cache.                                                                  *)
(***************************************************************************)
EntriesOf(id) == {i \in DOMAIN recent.entries : recent.entries[i].pk = id}

\* the cache is loaded and holds for id what the last upsert or remove left:
\* the entry of the stored page if it is published, no entry otherwise
CacheFollows(id) ==
  /\ recent.loaded
  /\ IF IsPublished(id)
     THEN \E i \in EntriesOf(id) : recent.entries[i] = _entry_from_page(id, pages[id])
     ELSE EntriesOf(id) = {}

HookEngineCallFailed(kinds) ==
  /\ last.kind \in kinds
  /\ calls # <<>>
  /\ ~LogOk(calls)

\* C21: when the engine call of a save, delete or tag-change hook fails, the
\* hook ends normally all the same (no error reaches the code that saved or
\* deleted), the store keeps the change (the row with the saved status, or
\* no row after a delete), and the cache update of the save and delete
\* hooks is applied.
C21_HookSurvivesEngineFailure ==
  /\ HookEngineCallFailed({"save", "delete", "tags"}) => last.ok
  /\ HookEngineCallFailed({"save", "tags"}) =>
       (last.id \in DOMAIN pages /\ pages[last.id].status = last.status)
  /\ HookEngineCallFailed({"delete"}) => last.id \notin DOMAIN pages
  /\ HookEngineCallFailed({"save", "delete"}) => CacheFollows(last.id)

\* a published page saved while the engine was down: stored and cached
C21_Witness ==
  /\ HookEngineCallFailed({"save"})
  /\ last.ok
  /\ IsPublished(last.id)
  /\ last.id \notin DOMAIN index
  /\ EntriesOf(last.id) # {}

(***************************************************************************)
(* Specification of two requests that save the same page at the same       *)
(* time.  Page.save() writes the row, then post_save runs in the saving    *)
(* thread on that thread's instance; nothing is locked, so the row writes  *)
(* and the hooks of the two threads interleave freely.                     *)
(***************************************************************************)
Threads == {1, 2}

RacedId == 1

InitRace ==
  /\ now = 0
  /\ tasks = <<>>
  /\ sortable = TRUE
  /\ calls = <<>>
  /\ last = NoOperation
  /\ clean = FALSE
  /\ search = IdleSearch
  /\ recent = NotLoaded
  /\ \E before \in {"none"} \cup Statuses :
       LET store == IF before = "none" THEN EmptyMap
                    ELSE [id \in {RacedId} |-> Row(T_OverviewKK, before, {}, 0)]
       IN  /\ pages = store
           /\ index = IndexOf([id \in {i \in DOMAIN store : store[i].status = "published"}
                                 |-> store[id]])
  /\ \E s1 \in Statuses, s2 \in Statuses :
       job = [ fn |-> "save_race",
               threads |-> [t \in Threads |->
                              [ pc |-> "save", status |-> IF t = 1 THEN s1 ELSE s2,
                                instance |-> Row(T_OverviewKK, "none", {}, 0) ]] ]

\* Page.save() in thread t: the row is written
RaceWrite(t) ==
  /\ job.fn = "save_race"
  /\ job.threads[t].pc = "save"
  /\ LET instance == [Row(T_OverviewKK, job.threads[t].status, {}, now) EXCEPT
                        !.created = IF RacedId \in DOMAIN pages
                                    THEN pages[RacedId].created ELSE now]
     IN  /\ pages' = Put(pages, RacedId, instance)
         /\ job' = [job EXCEPT !.threads[t].pc = "post_save",
                               !.threads[t].instance = instance]
  /\ UNCHANGED <<now, recent, index, tasks, sortable, calls, last, clean, search>>

\* post_save in thread t, on the instance that thread saved
RaceHook(t, engine_ok) ==
  /\ job.fn = "save_race"
  /\ job.threads[t].pc = "post_save"
  /\ LET instance == job.threads[t].instance
         cs == sync_page_to_search_on_save(RacedId, instance, engine_ok)
     IN  /\ tasks' = tasks \o AcceptedTasks(cs)
         /\ calls' = calls \o Logged(cs)
         /\ recent' = upsert_recent_page(recent, pages, RacedId, instance)
  /\ job' = [job EXCEPT !.threads[t].pc = "done"]
  /\ UNCHANGED <<now, pages, index, sortable, last, clean, search>>

NextRace ==
  \/ \E t \in Threads : RaceWrite(t)
  \/ \E t \in Threads, engine_ok \in BOOLEAN : RaceHook(t, engine_ok)
  \/ EngineApply

SpecRace == InitRace /\ [][NextRace]_vars

RaceOver ==
  /\ job.fn = "save_race"
  /\ \A t \in Threads : job.threads[t].pc = "done"
  /\ tasks = <<>>
  /\ LogOk(calls)

\* C22: two save hooks racing on one page id: under every interleaving of
\* the row writes and the engine calls, once both hooks are over and the
\* engine has applied their calls, the index holds a document for the id
\* exactly when the row in the store is published.
C22_RaceIsBenign ==
  RaceOver => ((RacedId \in DOMAIN index) <=> IsPublished(RacedId))

\* both saves are over, the row is a draft and the index holds the document
\* the other save wrote
C22_Witness ==
  /\ RaceOver
  /\ ~IsPublished(RacedId)
  /\ RacedId \in DOMAIN index

(***************************************************************************)
(* Properties of search_pages called with a blank query, and of the total  *)
(* it reports.                                                             *)
(***************************************************************************)
BlankCall ==
  /\ SearchOpen
  /\ search.entry = "search_pages"
  /\ strip(search.query) = <<>>

\* C23: search_pages with an empty or whitespace-only query has returned an
\* empty hit list with totalHits 0, and has made no call: none to the engine,
\* none to initialize_search_index, none to the content store.
C23_BlankQueryReturnsEmpty ==
  BlankCall =>
    /\ search.pc = "done"
    /\ search.outcome = "ok"
    /\ search.hits = <<>>
    /\ search.totalHits = 0
    /\ calls = <<>>
    /\ ~search.fetched

\* a whitespace-only query, answered, over a store and an index that hold
\* pages
C23_Witness ==
  /\ BlankCall
  /\ search.query = Q_blank
  /\ search.pc = "done"
  /\ search.totalHits = 0
  /\ DOMAIN index # {}

(***************************************************************************)
(* Specification of the total of a search result: an engine response with  *)
(* any of the total-count fields of the engine's versions, then lines      *)
(* 401-403 of search_pages on it.                                          *)
(***************************************************************************)
TotalFields == {"estimatedTotalHits", "nbHits", "totalHits"}

TotalValues == 0..MaxKeys

InitTotal ==
  /\ Standstill
  /\ \E present \in SUBSET TotalFields :
       \E values \in [present -> TotalValues] :
          job = [ fn |-> "extract_total_hits", pc |-> "called",
                  response |-> [key \in present \cup {"hits"} |->
                                  IF key = "hits" THEN <<>> ELSE values[key]],
                  results |-> [hits |-> <<>>] ]

\* total_hits = extract_total_hits(results); results['totalHits'] = total_hits
SetTotalHits ==
  /\ job.fn = "extract_total_hits"
  /\ job.pc = "called"
  /\ job' = [job EXCEPT !.pc = "returned", !.results = set_total_hits(job.response)]
  /\ UNCHANGED <<now, recent, pages, index, tasks, sortable, calls, last, clean, search>>

NextTotal == SetTotalHits

SpecTotal == InitTotal /\ [][NextTotal]_vars

FieldOrder == <<"estimatedTotalHits", "nbHits", "totalHits">>

\* the position in FieldOrder of the first field the response has
FirstPresent(response) ==
  CHOOSE i \in DOMAIN FieldOrder :
    /\ FieldOrder[i] \in DOMAIN response
    /\ \A j \in 1..(i - 1) : FieldOrder[j] \notin DOMAIN response

\* C25: the totalHits of the result is the value of the first of the fields
\* estimatedTotalHits, nbHits, totalHits that the engine response has, in
\* that order; a response with none of them is returned as it is.
C25_FirstPresentTotalWins ==
  (job.fn = "extract_total_hits" /\ job.pc = "returned") =>
    IF DOMAIN job.response \cap TotalFields # {}
    THEN /\ "totalHits" \in DOMAIN job.results
         /\ job.results.totalHits = job.response[FieldOrder[FirstPresent(job.response)]]
    ELSE job.results = job.response

\* the response has the three fields with three different values
C25_Witness ==
  /\ job.fn = "extract_total_hits"
  /\ job.pc = "returned"
  /\ TotalFields \subseteq DOMAIN job.response
  /\ job.response.estimatedTotalHits = 2
  /\ job.response.nbHits = 1
  /\ job.response.totalHits = 0
  /\ job.results.totalHits = 2

(***************************************************************************)
(* Specification of remove_page_from_search called for any id, over an     *)
(* index that holds the documents of the published pages: ids with a       *)
(* document, the id of a draft, an id no page has, ids removed before.     *)
(***************************************************************************)
RemoveIds == SmallIds \cup {Cardinality(SmallIds) + 1}

InitRemove == InitCorpus(ConsistentCorpus, {TRUE})

NextRemove ==
  \/ \E id \in RemoveIds, engine_ok \in BOOLEAN : RemoveCall(id, engine_ok)
  \/ EngineApply

SpecRemove == InitRemove /\ [][NextRemove]_vars

\* this step is a call of remove_page_from_search(id) that the engine took
RemoveTaken(id) ==
  /\ Len(tasks') > Len(tasks)
  /\ last'.kind = "remove"
  /\ last'.id = id

FlagTags ==
  { [name |-> N_Overview, slug |-> S_overview],
    [name |-> N_ManyStudies, slug |-> S_many_studies],
    [name |-> N_Category, slug |-> S_category],
    [name |-> N_XCategory, slug |-> S_x_category],
    [name |-> N_KK, slug |-> Q_kk] }

InitFlags ==
  /\ Standstill
  /\ \E tags \in ListsOf(FlagTags, MaxKeys), title \in PriorityTitles :
       job = [ fn |-> "hit_flags", pc |-> "called", title |-> title,
               tag_names |-> [i \in DOMAIN tags |-> tags[i].name],
               tag_slugs |-> [i \in DOMAIN tags |-> tags[i].slug],
               flags |-> [has_overview |-> FALSE, has_many_studies |-> FALSE,
                          has_category |-> FALSE] ]

\* the flags of the hit that the document of the page is: its title and its
\* tag names
HitFlags ==
  /\ job.fn = "hit_flags"
  /\ job.pc = "called"
  /\ LET title_casefold == casefold(job.title)
         tags_casefold == [i \in DOMAIN job.tag_names |-> casefold(job.tag_names[i])]
     IN  job' = [job EXCEPT
                   !.pc = "returned",
                   !.flags = [has_overview |-> is_overview_hit(title_casefold, tags_casefold),
                              has_many_studies |-> is_many_studies_hit(title_casefold),
                              has_category |-> is_category_hit(tags_casefold)]]
  /\ UNCHANGED <<now, recent, pages, index, tasks, sortable, calls, last, clean, search>>

NextFlags == HitFlags

SpecFlags == InitFlags /\ [][NextFlags]_vars

FlagsReturned == job.fn = "hit_flags" /\ job.pc = "returned"

\* C27: for every hit the three flags of the reranker equal the overview,
\* many-studies and category signals of the priority algorithm on the same
\* title and tags (names and slugs, case-folded, '-' read as a space).
C27_FlagsEqualSignals ==
  FlagsReturned =>
    /\ job.flags.has_overview = OverviewSignal
    /\ job.flags.has_many_studies = ManyStudiesSignal
    /\ job.flags.has_category = CategorySignal

\* a page tagged 'Many Studies' whose title does not say so: the priority
\* algorithm has the many-studies signal, the reranker's flag is off
C27_Witness ==
  /\ FlagsReturned
  /\ job.title = T_X
  /\ job.tag_names = <<N_ManyStudies>>
  /\ ManyStudiesSignal
  /\ ~job.flags.has_many_studies

(***************************************************************************)
(* Specification of the reindex command (reindex_search.py:16-54) running  *)
(* while pages are deleted or unpublished by requests of the application.  *)
(* The command clears the index, initializes it, queries the published     *)
(* pages and hands the stream to bulk_index_pages; nothing is locked       *)
(* between the command and the hooks.  The streams here are shorter than   *)
(* batch_size, so the only write is the one after the loop.                *)
(***************************************************************************)
ReindexHookIds == {1, 2}

InitReindex ==
  /\ now = 0
  /\ pages = ConsistentCorpus.pages
  /\ index = IndexOf(ConsistentCorpus.indexed)
  /\ tasks = <<>>
  /\ sortable \in BOOLEAN
  /\ calls = <<>>
  /\ last = NoOperation
  /\ clean = FALSE
  /\ search = IdleSearch
  /\ recent = NotLoaded
  /\ job = [fn |-> "reindex_search", pc |-> "clear", stream |-> <<>>, pos |-> 0, batch |-> <<>>]

Reindexing(pc) == job.fn = "reindex_search" /\ job.pc = pc

\* clear_search_index(): delete_all_documents is sent and not waited for
ReindexClear(engine_ok) ==
  /\ Reindexing("clear")
  /\ tasks' = IF engine_ok THEN Append(tasks, DeleteAllTask) ELSE tasks
  /\ job' = [job EXCEPT !.pc = IF engine_ok THEN "initialize" ELSE "raised"]
  /\ UNCHANGED <<now, recent, pages, index, sortable, calls, last, clean, search>>

\* initialize_search_index(): it returns when its settings tasks are over;
\* the engine runs its tasks in order, the clearing first
ReindexInitialize(ok) ==
  /\ Reindexing("initialize")
  /\ tasks = <<>>
  /\ sortable' = (sortable \/ ok)
  /\ job' = [job EXCEPT !.pc = IF ok THEN "query" ELSE "raised"]
  /\ UNCHANGED <<now, recent, pages, index, tasks, calls, last, clean, search>>

\* Page.objects.filter(status='published'), count() and the rows the
\* iterator streams: the rows as they are when the query runs
ReindexQuery ==
  /\ Reindexing("query")
  /\ LET ids == IdsAscending(Published(pages))
     IN  job' = [job EXCEPT
                   !.stream = [i \in DOMAIN ids |-> [id |-> ids[i], page |-> pages[ids[i]]]],
                   !.pc = IF ids = <<>> THEN "returned" ELSE "loop"]
  /\ UNCHANGED <<now, recent, pages, index, tasks, sortable, calls, last, clean, search>>

\* bulk_index_pages, one iteration: the streamed row is formatted (its tags
\* are read from the store at this point) and appended
ReindexTake ==
  /\ Reindexing("loop")
  /\ job.pos < Len(job.stream)
  /\ LET item == job.stream[job.pos + 1]
         page == [item.page EXCEPT
                    !.tags = IF item.id \in DOMAIN pages THEN pages[item.id].tags ELSE {}]
         batch == IF page.status = "published"
                  THEN Append(job.batch, format_page_for_search(item.id, page))
                  ELSE job.batch
     IN  job' = [job EXCEPT !.pos = @ + 1, !.batch = batch]
  /\ UNCHANGED <<now, recent, pages, index, tasks, sortable, calls, last, clean, search>>

\* bulk_index_pages after the loop: the batch is written (search.py:308-309)
ReindexWrite(engine_ok) ==
  /\ Reindexing("loop")
  /\ job.pos = Len(job.stream)
  /\ job.batch # <<>>
  /\ WriteBatch(engine_ok)
  /\ job' = [job EXCEPT !.pc = IF engine_ok THEN "returned" ELSE "raised"]
  /\ UNCHANGED <<now, recent, pages, index, sortable, last, clean, search>>

\* a request deletes a page, or saves it as a draft, and its hook removes
\* the document; the engine takes the hook's call
NextReindex ==
  \/ \E engine_ok \in BOOLEAN : ReindexClear(engine_ok)
  \/ \E ok \in BOOLEAN : ReindexInitialize(ok)
  \/ ReindexQuery
  \/ ReindexTake
  \/ \E engine_ok \in BOOLEAN : ReindexWrite(engine_ok)
  \/ \E id \in ReindexHookIds : DeletePage(id, TRUE)
  \/ \E id \in ReindexHookIds \cap DOMAIN pages : SavePage(id, pages[id].title, "draft", TRUE)
  \/ EngineApply

SpecReindex == InitReindex /\ [][NextReindex]_vars

ReindexOver == Reindexing("returned") /\ tasks = <<>>

\* C28: pages deleted or unpublished while the reindex runs, their hooks'
\* calls taken by the engine: once the reindex has returned and the engine
\* has applied every call, the index holds no document of a page that is
\* not published any more.
C28_ReindexKeepsRemovals ==
  ReindexOver => \A id \in DOMAIN index : IsPublished(id)

\* the reindex is over, page 1 was deleted meanwhile and its document is
\* in the index
C28_Witness ==
  /\ ReindexOver
  /\ last.kind = "delete"
  /\ last.id = 1
  /\ 1 \notin DOMAIN pages
  /\ 1 \in DOMAIN index

(***************************************************************************)
(* Specification of the recent-pages cache over a store with more          *)
(* published pages than the cache keeps: the process loads the cache,      *)
(* pages are saved and deleted (their hooks update the cache), the cache   *)
(* is reloaded, the clock advances.  The engine is down throughout, which  *)
(* the hooks log and pass over.                                            *)
(***************************************************************************)
MaxTicks == 1

\* MAX_RECENT_PAGES + 2 published pages, modified one tick after another,
\* and one draft newer than all of them
CachePages ==
  [ id \in 1..(MAX_RECENT_PAGES + 3) |->
      Row(T_X, IF id <= MAX_RECENT_PAGES + 2 THEN "published" ELSE "draft", {}, id) ]

CacheStart == MAX_RECENT_PAGES + 4

\* the pages the requests touch: the newest published page and the draft
CacheIds == {MAX_RECENT_PAGES + 2, MAX_RECENT_PAGES + 3}

InitCache ==
  /\ now = CacheStart
  /\ pages = CachePages
  /\ index = EmptyMap
  /\ tasks = <<>>
  /\ sortable = TRUE
  /\ calls = <<>>
  /\ last = NoOperation
  /\ clean = FALSE
  /\ search = IdleSearch
  /\ job = NoJob
  /\ recent = NotLoaded

\* load_recent_pages(force), reload_recent_pages(), the load of startup.py
CacheLoad(force) ==
  /\ recent' = load_recent_pages(recent, pages, force)
  /\ last' = [kind |-> "load", id |-> 0, status |-> "none", ok |-> TRUE]
  /\ UNCHANGED <<now, pages, index, tasks, sortable, calls, clean, search, job>>

CacheTick ==
  /\ now < CacheStart + MaxTicks
  /\ now' = now + 1
  /\ UNCHANGED <<recent, pages, index, tasks, sortable, calls, last, clean, search, job>>

NextCache ==
  \/ \E force \in BOOLEAN : CacheLoad(force)
  \/ \E id \in CacheIds, status \in Statuses : SavePage(id, T_X, status, FALSE)
  \/ \E id \in CacheIds : DeletePage(id, FALSE)
  \/ CacheTick

SpecCache == InitCache /\ [][NextCache]_vars

PublishedIds == {id \in DOMAIN pages : pages[id].status = "published"}

\* C26: after any sequence of loads, reloads and save and delete hooks the
\* cache holds at most MAX_RECENT_PAGES entries, at most one per page id, only
\* published ones, in descending order of (modified_date, created_date, id);
\* the page a hook has just saved as draft or deleted has no entry.
C26_CacheWellFormed ==
  /\ Len(recent.entries) <= MAX_RECENT_PAGES
  /\ \A i, j \in DOMAIN recent.entries :
       recent.entries[i].pk = recent.entries[j].pk => i = j
  /\ \A i \in DOMAIN recent.entries : recent.entries[i].status = "published"
  /\ \A i \in DOMAIN recent.entries :
       i < Len(recent.entries) =>
         KeyGreater(_sort_key(recent.entries[i]), _sort_key(recent.entries[i + 1]))
  /\ (last.kind = "delete" \/ (last.kind = "save" /\ last.status = "draft")) =>
       EntriesOf(last.id) = {}

\* the draft has been published into a full cache, which dropped its oldest
\* entry to stay at MAX_RECENT_PAGES
C26_Witness ==
  /\ last.kind = "save"
  /\ last.status = "published"
  /\ last.id = MAX_RECENT_PAGES + 3
  /\ Cardinality(PublishedIds) = MAX_RECENT_PAGES + 3
  /\ Len(recent.entries) = MAX_RECENT_PAGES
  /\ recent.entries[1].pk = last.id
  /\ recent.entries[MAX_RECENT_PAGES].pk = 4

\* C29: once the cache is loaded, after any sequence of page saves and
\* deletes with their hooks it equals what a fresh load from the store gives:
\* the up to MAX_RECENT_PAGES most recently modified published pages, in the
\* same order.
C29_CacheEqualsFreshLoad ==
  recent.loaded => recent.entries = RecentQuery(pages)

\* a cached page was deleted while the store held more published pages than
\* the cache keeps: the cache is one entry short of a fresh load, which takes
\* in the next page
C29_Witness ==
  /\ recent.loaded
  /\ last.kind = "delete"
  /\ Len(recent.entries) = MAX_RECENT_PAGES - 1
  /\ Len(RecentQuery(pages)) = MAX_RECENT_PAGES
  /\ \A i \in DOMAIN recent.entries : recent.entries[i] = RecentQuery(pages)[i]

(***************************************************************************)
(* Specification of load_recent_pages in one thread while requests in      *)
(* another thread save and delete pages.  The loader holds _lock while it  *)
(* tests _loaded, lets it go while it reads the store, and takes it again  *)
(* to replace the list; a save or delete with its hook fits in each gap.   *)
(* The engine is down throughout.                                          *)
(***************************************************************************)
LoadRacePages ==
  [ id \in {1, 2} |-> Row(IF id = 1 THEN T_KK ELSE T_X, "published", {}, id) ]

LoadRaceIds == {1, 3}

LoadRaceTitles == {T_OverviewKK}

\* the initial load (nothing cached, force or not) or a forced reload of a
\* cache that agrees with the store
InitLoadRace ==
  /\ now = 3
  /\ pages = LoadRacePages
  /\ index = EmptyMap
  /\ tasks = <<>>
  /\ sortable = TRUE
  /\ calls = <<>>
  /\ last = NoOperation
  /\ clean = FALSE
  /\ search = IdleSearch
  /\ recent \in {NotLoaded, load_recent_pages(NotLoaded, LoadRacePages, TRUE)}
  /\ \E force \in BOOLEAN :
       /\ (recent.loaded => force)
       /\ job = [fn |-> "load_recent_pages", pc |-> "check", force |-> force, entries |-> <<>>]

Loading(pc) == job.fn = "load_recent_pages" /\ job.pc = pc

\* with _lock: if _loaded and not force: return
LoadCheck ==
  /\ Loading("check")
  /\ job' = [job EXCEPT !.pc = IF recent.loaded /\ ~job.force THEN "returned" ELSE "query"]
  /\ UNCHANGED <<now, recent, pages, index, tasks, sortable, calls, last, clean, search>>

\* entries = [... for page in queryset], outside the lock
LoadQuery ==
  /\ Loading("query")
  /\ job' = [job EXCEPT !.pc = "replace", !.entries = RecentQuery(pages)]
  /\ UNCHANGED <<now, recent, pages, index, tasks, sortable, calls, last, clean, search>>

\* with _lock: _recent_pages = entries; _loaded = True
LoadReplace ==
  /\ Loading("replace")
  /\ recent' = [entries |-> job.entries, loaded |-> TRUE]
  /\ job' = [job EXCEPT !.pc = "returned"]
  /\ UNCHANGED <<now, pages, index, tasks, sortable, calls, last, clean, search>>

NextLoadRace ==
  \/ LoadCheck
  \/ LoadQuery
  \/ LoadReplace
  \/ \E id \in LoadRaceIds, title \in LoadRaceTitles, status \in Statuses :
       SavePage(id, title, status, FALSE)
  \/ \E id \in LoadRaceIds : DeletePage(id, FALSE)

SpecLoadRace == InitLoadRace /\ [][NextLoadRace]_vars

\* C30: a load_recent_pages call that runs while another thread's hooks
\* upsert and remove entries discards no completed update: once the load has
\* returned, with every hook finished, the cache holds for each saved or
\* deleted page what its latest saved state asks for (its entry with the
\* stored fields if it is published, no entry otherwise).
C30_LoadKeepsUpdates ==
  Loading("returned") => \A id \in LoadRaceIds : CacheFollows(id)

\* the load has returned after replacing the list with what it had read
\* before a page was saved as published: the cache lacks the stored fields of
\* that page
C30_Witness ==
  /\ Loading("returned")
  /\ last.kind = "save"
  /\ IsPublished(last.id)
  /\ recent.loaded
  /\ \A i \in DOMAIN recent.entries :
       recent.entries[i] # _entry_from_page(last.id, pages[last.id])

====
